---- MODULE Spec2Model ----
(***************************************************************************)
(* A model of tsukumijima/EPGDatasetGenerator.                             *)
(*                                                                         *)
(*   Spec          02-GenerateEPGDatasetSubset.py, main: the subset        *)
(*                 generator (read loop, sampling, sort, duplicate-id      *)
(*                 pass, statistics, write).                               *)
(*   SpecDataset   01-GenerateEPGDataset.py, main: the dataset generator   *)
(*                 (one-week fetch windows, id assignment, dedup, write).  *)
(*   SpecGenerators  a run of either generator, for what the two share.    *)
(*   SpecClassify  is_terrestrial / is_free_bs / is_paid_bs_cs and the     *)
(*                 if/elif chain that picks the category pool.             *)
(*   SpecSample    sample_data, one call per step.                         *)
(*   SpecWeight    get_weight, one call per step.                          *)
(*   SpecFormat    FormatString, applied once and once more.               *)
(*   SpecRemove    RemoveSymbols, applied once and once more.              *)
(*   SpecId        the id f-string of the dataset generator.               *)
(*   SpecVariant   GenerateEPGDatasetSubset.py, main: the subset generator *)
(*                 with the genre floors (initial draw, correction pass).  *)
(*   SpecWindows   01-GenerateEPGDataset.py, main: the fetch windows with   *)
(*                 times to the half minute and a client that returns the  *)
(*                 events that start in the window.                        *)
(*                                                                         *)
(* Every specification owns a group of variables; the other groups keep    *)
(* their idle values.                                                      *)
(***************************************************************************)
EXTENDS Integers, Sequences, FiniteSets, TLC

VARIABLES
    \* ---- SpecClassify
    cl_network_id, cl_service_id, cl_category,
    \* ---- SpecSample: sample_data's arguments (the pool as its weights) and result
    sd_weights, sd_target_size, sd_result, sd_returned,
    \* ---- SpecId: two source events and the ids assigned to them ("" = not yet)
    id_event_a, id_event_b, id_epg_id_a, id_epg_id_b,
    \* ---- SpecDataset: 01-GenerateEPGDataset.py, main
    ds_pc,                         \* "start", "while", "process", "done", "exists", "aborted"
    ds_start_date, ds_end_date,    \* the options, in days
    ds_current_start_date, ds_current_end_date,
    ds_unique_set,                 \* unique_set: the ids seen in this run
    ds_service_event_info_list,    \* what the client returned for the current window
    ds_path_exists,                \* dataset_path.exists()
    ds_dataset_file,               \* the lines of the file at dataset_path
    ds_log,                        \* the 'Skip: <id>', 'Add: <id>' and 'Warning: ...'
                                   \* lines printed,
                                   \* each with the start of the window whose header
                                   \* line precedes it
    \* ---- Spec: 02-GenerateEPGDatasetSubset.py, main
    sg_pc,                         \* "start", "read", "sampled", "done", "exists", "error"
    sg_subset_size, sg_start_date, sg_end_date,     \* the options
    sg_path_exists,                \* subset_path.exists()
    sg_all_epg_count, sg_all_epg_data,
    sg_terrestrial_data, sg_free_bs_data, sg_paid_bs_cs_data,
    sg_unique_keys,
    sg_skipped,                    \* the number of 'Skipping (...)' lines printed, by reason
    sg_sampled,                    \* what the three calls of sample_data returned
    sg_subsets,
    sg_subset_file,                \* the lines of the file at subset_path
    \* ---- SpecWeight: get_weight's argument and what it returned
    wt_data, wt_weight, wt_returned,
    \* ---- SpecFormat: a string, FormatString of it, and FormatString of that
    fs_string, fs_first, fs_result, fs_calls,
    \* ---- SpecRemove: a string, RemoveSymbols of it, and RemoveSymbols of that
    rs_string, rs_first, rs_result, rs_calls,
    \* ---- SpecVariant: GenerateEPGDatasetSubset.py, main
    gf_pc,                         \* "start", "read", "sampled", "counted", "corrected",
                                   \* "done", "exists", "error"
    gf_subset_size,                \* the option
    gf_path_exists,                \* subset_path.exists()
    gf_dataset,                    \* the lines of the file at dataset_path
    gf_pools,                      \* terrestrial_data, free_bs_data, paid_bs_cs_data
    gf_initial,                    \* subsets as the initial draw left it
    gf_drama_count, gf_anime_count,
    gf_added,                      \* what the correction pass appended to subsets
    gf_subsets,
    gf_raised,                     \* the exception that ended the run, or "none"
    gf_subset_file,                \* the lines of the file at subset_path
    \* ---- SpecWindows: 01-GenerateEPGDataset.py, main, times to the half minute
    wn_pc,                         \* "start", "while", "process", "done"
    wn_start_date, wn_end_date,    \* the options
    wn_guide,                      \* the events the guide holds
    wn_current_start_date, wn_current_end_date,
    wn_windows,                    \* the windows fetched so far, in order
    wn_service_event_info_list,
    wn_unique_set,
    wn_dataset_file,               \* the lines of the file at dataset_path
    \* ---- SpecAnnotate: 03-AnnotateEPGDatasetSubset.py, main and OnClick
    an_pc,                         \* "start", "serving", "missing"
    an_path_exists,                \* subset_path.exists()
    an_subset_file,                \* the lines of the file at subset_path
    an_subsets, an_current_index,
    an_id_box,                     \* the value of id_box in the page of each session
    an_clicked                     \* the arguments of the last call of OnClick


varsClassify == <<cl_network_id, cl_service_id, cl_category>>
varsSample == <<sd_weights, sd_target_size, sd_result, sd_returned>>
varsId == <<id_event_a, id_event_b, id_epg_id_a, id_epg_id_b>>
varsDataset == <<ds_pc, ds_start_date, ds_end_date, ds_current_start_date,
                 ds_current_end_date, ds_unique_set, ds_service_event_info_list,
                 ds_path_exists, ds_dataset_file, ds_log>>
varsSubset == <<sg_pc, sg_subset_size, sg_start_date, sg_end_date, sg_path_exists,
                sg_all_epg_count, sg_all_epg_data, sg_terrestrial_data, sg_free_bs_data,
                sg_paid_bs_cs_data, sg_unique_keys, sg_skipped, sg_sampled, sg_subsets,
                sg_subset_file>>
varsWeight == <<wt_data, wt_weight, wt_returned>>
varsFormat == <<fs_string, fs_first, fs_result, fs_calls>>
varsRemove == <<rs_string, rs_first, rs_result, rs_calls>>
varsVariant == <<gf_pc, gf_subset_size, gf_path_exists, gf_dataset, gf_pools, gf_initial,
                 gf_drama_count, gf_anime_count, gf_added, gf_subsets, gf_raised,
                 gf_subset_file>>
varsWindows == <<wn_pc, wn_start_date, wn_end_date, wn_guide, wn_current_start_date,
                 wn_current_end_date, wn_windows, wn_service_event_info_list,
                 wn_unique_set, wn_dataset_file>>
varsAnnotate == <<an_pc, an_path_exists, an_subset_file, an_subsets, an_current_index,
                  an_id_box, an_clicked>>

vars == <<cl_network_id, cl_service_id, cl_category,
          sd_weights, sd_target_size, sd_result, sd_returned,
          id_event_a, id_event_b, id_epg_id_a, id_epg_id_b,
          ds_pc, ds_start_date, ds_end_date, ds_current_start_date,
          ds_current_end_date, ds_unique_set, ds_service_event_info_list,
          ds_path_exists, ds_dataset_file, ds_log,
          sg_pc, sg_subset_size, sg_start_date, sg_end_date, sg_path_exists,
          sg_all_epg_count, sg_all_epg_data, sg_terrestrial_data, sg_free_bs_data,
          sg_paid_bs_cs_data, sg_unique_keys, sg_skipped, sg_sampled, sg_subsets,
          sg_subset_file,
          wt_data, wt_weight, wt_returned,
          fs_string, fs_first, fs_result, fs_calls,
          rs_string, rs_first, rs_result, rs_calls,
          gf_pc, gf_subset_size, gf_path_exists, gf_dataset, gf_pools, gf_initial,
          gf_drama_count, gf_anime_count, gf_added, gf_subsets, gf_raised, gf_subset_file,
          wn_pc, wn_start_date, wn_end_date, wn_guide, wn_current_start_date,
          wn_current_end_date, wn_windows, wn_service_event_info_list, wn_unique_set,
          wn_dataset_file,
          an_pc, an_path_exists, an_subset_file, an_subsets, an_current_index,
          an_id_box, an_clicked>>

\* ---- general helpers
Min(a, b) == IF a <= b THEN a ELSE b

RECURSIVE SumSeq(_)
SumSeq(s) == IF s = <<>> THEN 0 ELSE Head(s) + SumSeq(Tail(s))

Range(s) == {s[i] : i \in DOMAIN s}

\* All sequences over S of length 0..n.
SeqsUpTo(S, n) == UNION {[1..k -> S] : k \in 0..n}

\* ---- strings as sequences of one-character strings
\* The characters the ids use, in code point order: str comparison is by
\* code point.
CodePointOrder ==
    <<"-", "0", "1", "2", "3", "4", "5", "6", "7", "8", "9", "D", "E", "I", "N", "S">>

Ord(c) == CHOOSE i \in 1..Len(CodePointOrder) : CodePointOrder[i] = c

\* a < b on str.
RECURSIVE StrLess(_, _)
StrLess(a, b) ==
    IF b = <<>> THEN FALSE
    ELSE IF a = <<>> THEN TRUE
    ELSE IF Head(a) = Head(b) THEN StrLess(Tail(a), Tail(b))
    ELSE Ord(Head(a)) < Ord(Head(b))

\* list.sort(key=lambda x: x.id): stable, ascending by id.
RECURSIVE InsertById(_, _)
InsertById(sorted, x) ==
    IF sorted = <<>> THEN <<x>>
    ELSE IF StrLess(x.id, Head(sorted).id) THEN <<x>> \o sorted
    ELSE <<Head(sorted)>> \o InsertById(Tail(sorted), x)

RECURSIVE SortInto(_, _)
SortInto(sorted, rest) ==
    IF rest = <<>> THEN sorted ELSE SortInto(InsertById(sorted, Head(rest)), Tail(rest))

\* The list left in the order it has, the sort omitted.
SortById_Omitted(list) == list

\* list.sort(key=lambda x: x.id): a stable sort by id, ids compared as str.
SortById(list) == SortInto(<<>>, list)

(***************************************************************************)
(* Channel classification (02-GenerateEPGDatasetSubset.py, lines 17-24).   *)
(* 0x7880 = 30848, 0x7FE8 = 32744.                                         *)
(***************************************************************************)
is_terrestrial(network_id) ==
    30848 <= network_id /\ network_id <= 32744

\* is_free_bs with the service-id exclusion dropped: every BS service is free.
is_free_bs_NoPaidRange(network_id, service_id) ==
    network_id = 4

is_free_bs(network_id, service_id) ==
    network_id = 4 /\ ~((191 <= service_id /\ service_id <= 209)
                        \/ (234 <= service_id /\ service_id <= 256))

is_paid_bs_cs(network_id, service_id) ==
    (network_id = 6 \/ network_id = 7)
    \/ (network_id = 4 /\ ((191 <= service_id /\ service_id <= 209)
                           \/ (234 <= service_id /\ service_id <= 256)))

\* The pool a record is appended to (lines 169-174): first match of the
\* if/elif chain, "unclassified" when no branch is taken.
Category(network_id, service_id) ==
    IF is_terrestrial(network_id) THEN "terrestrial"
    ELSE IF is_free_bs(network_id, service_id) THEN "free_bs"
    ELSE IF is_paid_bs_cs(network_id, service_id) THEN "paid_bs_cs"
    ELSE "unclassified"

\* Network and service ids on and around every boundary the predicates test.
NetworkIds == {-1, 0, 3, 4, 5, 6, 7, 8, 30847, 30848, 32391, 32736, 32744, 32745, 65535}
ServiceIds == {-1, 0, 101, 190, 191, 200, 209, 210, 233, 234, 256, 257, 333, 1024}

(***************************************************************************)
(* sample_data (02-GenerateEPGDatasetSubset.py, lines 180-196).            *)
(* The pool is given by the weights of its items, in units of which only   *)
(* the sign and the zero test matter: a sum of non-negative floats is 0    *)
(* exactly when every term is 0.  The result is the sequence of chosen     *)
(* indices (1-based), in draw order.  random.choices(range(n), weights, 1) *)
(* is the standard library's draw: an index whose weight is positive.      *)
(* The operator gives every result the loop can end with.                  *)
(***************************************************************************)
available_weights(weights, selected_indices) ==
    [index \in 1..Len(weights) |->
        IF index \notin selected_indices THEN weights[index] ELSE 0]

RECURSIVE sample_loop(_, _, _, _)
sample_loop(weights, iterations_left, selected_indices, sampled_data) ==
    IF iterations_left <= 0 THEN {sampled_data}                    \* range(target_size) is used up
    ELSE IF Cardinality(selected_indices) >= Len(weights) THEN {sampled_data}   \* line 185: break
    ELSE LET available == available_weights(weights, selected_indices) IN
         IF SumSeq(available) = 0 THEN {sampled_data}              \* line 190: break
         ELSE UNION { sample_loop(weights, iterations_left - 1,
                                  selected_indices \cup {chosen_index},
                                  Append(sampled_data, chosen_index)) :
                      chosen_index \in {i \in 1..Len(weights) : available[i] > 0} }

\* sample_data with a draw that looks at no weight: any index that was not
\* chosen before, until the range or the pool is used up.
RECURSIVE sample_loop_AnyUnselected(_, _, _, _)
sample_loop_AnyUnselected(weights, iterations_left, selected_indices, sampled_data) ==
    IF iterations_left <= 0 THEN {sampled_data}
    ELSE IF Cardinality(selected_indices) >= Len(weights) THEN {sampled_data}
    ELSE UNION { sample_loop_AnyUnselected(weights, iterations_left - 1,
                                  selected_indices \cup {chosen_index},
                                  Append(sampled_data, chosen_index)) :
                 chosen_index \in (1..Len(weights)) \ selected_indices }

sample_data_AnyUnselected(weights, target_size) ==
    sample_loop_AnyUnselected(weights, target_size, {}, <<>>)

\* sample_data that forgets to zero the weights of the chosen indices: it
\* draws with replacement.
RECURSIVE sample_loop_WithReplacement(_, _, _, _)
sample_loop_WithReplacement(weights, iterations_left, selected_indices, sampled_data) ==
    IF iterations_left <= 0 THEN {sampled_data}
    ELSE IF Cardinality(selected_indices) >= Len(weights) THEN {sampled_data}
    ELSE IF SumSeq(weights) = 0 THEN {sampled_data}
         ELSE UNION { sample_loop_WithReplacement(weights, iterations_left - 1,
                                  selected_indices \cup {chosen_index},
                                  Append(sampled_data, chosen_index)) :
                      chosen_index \in {i \in 1..Len(weights) : weights[i] > 0} }

sample_data_WithReplacement(weights, target_size) ==
    sample_loop_WithReplacement(weights, target_size, {}, <<>>)

sample_data(weights, target_size) ==
    sample_loop(weights, target_size, {}, <<>>)

MaxPool == 3        \* longest pool handed to sample_data
MaxWeight == 2      \* weights are drawn from 0..MaxWeight
MaxTarget == 4      \* target_size is drawn from 0..MaxTarget

SampleInit ==
    /\ sd_weights \in SeqsUpTo(0..MaxWeight, MaxPool)
    /\ sd_target_size \in 0..MaxTarget
    /\ sd_result = <<>>
    /\ sd_returned = FALSE

SampleIdle ==
    /\ sd_weights = <<>>
    /\ sd_target_size = 0
    /\ sd_result = <<>>
    /\ sd_returned = FALSE

\* One call of sample_data.
SampleData ==
    /\ ~sd_returned
    /\ sd_returned' = TRUE
    /\ sd_result' \in sample_data(sd_weights, sd_target_size)
    /\ UNCHANGED <<sd_weights, sd_target_size>>

(***************************************************************************)
(* The record id (01-GenerateEPGDataset.py, line 142):                     *)
(*   f"{start_time.strftime('%Y%m%d%H%M')}-NID{onid:05d}-SID{sid:05d}-EID{eid:05d}" *)
(* A string is a sequence of one-character strings.  start_time is a       *)
(* datetime: [year, month, day, hour, minute, second].                     *)
(***************************************************************************)
DigitChars == <<"0", "1", "2", "3", "4", "5", "6", "7", "8", "9">>

RECURSIVE Decimal(_)
Decimal(n) ==
    IF n < 10 THEN <<DigitChars[n + 1]>>
    ELSE Append(Decimal(n \div 10), DigitChars[(n % 10) + 1])

RECURSIVE ZeroPad(_, _)
ZeroPad(digits, width) ==
    IF Len(digits) >= width THEN digits ELSE ZeroPad(<<"0">> \o digits, width)

\* format(n, '05d'): at least five characters, the sign counted, zeros after it.
Format05d(n) ==
    IF n < 0 THEN <<"-">> \o ZeroPad(Decimal(0 - n), 4) ELSE ZeroPad(Decimal(n), 5)

\* strftime('%Y%m%d%H%M') of a datetime with a four-digit year.
strftime_YmdHM(t) ==
    ZeroPad(Decimal(t.year), 4) \o ZeroPad(Decimal(t.month), 2) \o ZeroPad(Decimal(t.day), 2)
    \o ZeroPad(Decimal(t.hour), 2) \o ZeroPad(Decimal(t.minute), 2)

\* The id with the seconds of the start time kept ('%Y%m%d%H%M%S').
epg_id_WithSeconds(event_info) ==
    strftime_YmdHM(event_info.start_time) \o ZeroPad(Decimal(event_info.start_time.second), 2)
    \o <<"-", "N", "I", "D">> \o Format05d(event_info.onid)
    \o <<"-", "S", "I", "D">> \o Format05d(event_info.sid)
    \o <<"-", "E", "I", "D">> \o Format05d(event_info.eid)

epg_id(event_info) ==
    strftime_YmdHM(event_info.start_time)
    \o <<"-", "N", "I", "D">> \o Format05d(event_info.onid)
    \o <<"-", "S", "I", "D">> \o Format05d(event_info.sid)
    \o <<"-", "E", "I", "D">> \o Format05d(event_info.eid)

\* Start times and events of SpecId: the example of the specification
\* (2021-10-23 01:53, onid 32742, sid 1072, eid 27730) and neighbours that
\* differ from it in one field or more, also in fields the id does not read.
IdStartTimes ==
    [year : {2021, 2023}, month : {1, 10}, day : {23}, hour : {1, 12},
     minute : {53}, second : {0, 59}]
    \cup [year : {2021}, month : {10}, day : {1, 23}, hour : {1},
          minute : {30, 53}, second : {0, 59}]

IdEvents ==
    [start_time : IdStartTimes, onid : {4, 32742}, sid : {101, 1072},
     eid : {535, 27730}, tsid : {32742}, event_name : {"n1"}]

\* The second event: the same choice of identity fields, and any
\* transport stream and event name.
IdEventsB ==
    [start_time : IdStartTimes, onid : {32742}, sid : {1072},
     eid : {535, 27730}, tsid : {32742, 16625}, event_name : {"n1", "n2"}]

IdInit ==
    /\ id_event_a \in IdEvents
    /\ id_event_b \in IdEventsB
    /\ id_epg_id_a = <<>>
    /\ id_epg_id_b = <<>>

IdIdle ==
    /\ id_event_a = [start_time |-> [year |-> 2021, month |-> 10, day |-> 23,
                                     hour |-> 1, minute |-> 53, second |-> 0],
                     onid |-> 32742, sid |-> 1072, eid |-> 27730, tsid |-> 32742,
                     event_name |-> "n1"]
    /\ id_event_b = id_event_a
    /\ id_epg_id_a = <<>>
    /\ id_epg_id_b = <<>>

\* The two events are processed in either order.
AssignIdA ==
    /\ id_epg_id_a = <<>>
    /\ id_epg_id_a' = epg_id(id_event_a)
    /\ UNCHANGED <<id_event_a, id_event_b, id_epg_id_b>>

AssignIdB ==
    /\ id_epg_id_b = <<>>
    /\ id_epg_id_b' = epg_id(id_event_b)
    /\ UNCHANGED <<id_event_a, id_event_b, id_epg_id_a>>

(***************************************************************************)
(* The dataset generator (01-GenerateEPGDataset.py, main).                 *)
(*                                                                         *)
(* Dates are counted in days; timedelta(weeks=1) is 7 of them.  The guide- *)
(* data client (edcb.sendEnumPgArc, edcb.sendEnumPgInfoEx) is outside the  *)
(* program: what it returns for a window is any list of service entries,   *)
(* or None.  An event_info is a dict whose keys start_time, duration_sec   *)
(* and short_info may be missing: keys is the set of those present.  A     *)
(* written record keeps the fields the identity and the order are made of, *)
(* and raw (the event itself).                                             *)
(***************************************************************************)
Week == 7

\* DEFAULT_INCLUDE_NETWORK_IDS (lines 16-28).
DEFAULT_INCLUDE_NETWORK_IDS ==
    {4, 6, 7, 32736, 32737, 32738, 32741, 32739, 32742, 32740, 32391}

AllKeys == {"start_time", "duration_sec", "short_info"}

DsEvent(minute, second, onid, eid, name, keys) ==
    [start_time |-> [year |-> 2023, month |-> 1, day |-> 1, hour |-> 12,
                     minute |-> minute, second |-> second],
     duration_sec |-> 1800, onid |-> onid, tsid |-> 32736, sid |-> 1024, eid |-> eid,
     event_name |-> name, keys |-> keys]

\* The events the client may return: two with the same id and different
\* content, one more usable event, one of a network that is not included,
\* one without short_info, one without start_time, one without duration_sec.
DsEvents ==
    { DsEvent(30, 0, 32736, 535, "n1", AllKeys),
      DsEvent(30, 30, 32736, 535, "n2", AllKeys),
      DsEvent(31, 0, 4, 536, "n3", AllKeys),
      DsEvent(30, 0, 1, 537, "n4", AllKeys),
      DsEvent(30, 0, 32736, 538, "n5", {"start_time", "duration_sec"}),
      DsEvent(30, 0, 32736, 539, "n6", {"duration_sec", "short_info"}),
      DsEvent(30, 0, 32736, 540, "n7", {"start_time", "short_info"}) }

MaxEvents == 2         \* events of one service entry of sendEnumPgArc
MaxFutureEvents == 1   \* events of one service entry of sendEnumPgInfoEx
MaxStartDate == 1      \* start_date is drawn from 0..MaxStartDate
MaxEndDate == 9        \* end_date is drawn from 0..MaxEndDate

\* service_type 0x01 is digital TV; 0xC0 (192) is a data service.
ServiceEntries(max_events) ==
    [service_type : {1, 192}, event_list : SeqsUpTo(DsEvents, max_events)]

\* What one call of the client returns: None, or a list of service entries.
ClientResults(max_events) ==
    {[is_none |-> TRUE, list |-> <<>>]}
    \cup {[is_none |-> FALSE, list |-> l] : l \in SeqsUpTo(ServiceEntries(max_events), 1)}

\* The (service entry, event) pairs in the order of the nested for loops
\* (lines 122-123).
RECURSIVE EventsOf(_, _)
EventsOf(service_type, event_list) ==
    IF event_list = <<>> THEN <<>>
    ELSE <<[service_type |-> service_type, event_info |-> Head(event_list)]>>
         \o EventsOf(service_type, Tail(event_list))

RECURSIVE NestedLoopOrder(_)
NestedLoopOrder(service_event_info_list) ==
    IF service_event_info_list = <<>> THEN <<>>
    ELSE EventsOf(Head(service_event_info_list).service_type,
                  Head(service_event_info_list).event_list)
         \o NestedLoopOrder(Tail(service_event_info_list))

Malformed(event_info) ==
    "start_time" \notin event_info.keys \/ "duration_sec" \notin event_info.keys

EPGDataset(epg_id_value, event_info) ==
    [id |-> epg_id_value,
     network_id |-> event_info.onid,
     service_id |-> event_info.sid,
     transport_stream_id |-> event_info.tsid,
     event_id |-> event_info.eid,
     start_time |-> event_info.start_time,
     duration |-> event_info.duration_sec,
     raw |-> event_info]

\* What the nested for loops hand back: whether an assert failed, and
\* unique_set, dataset_list and the ids of the 'Skip:' lines at that point.
LoopState(aborted, unique_set, dataset_list, skipped) ==
    [aborted |-> aborted, unique_set |-> unique_set, dataset_list |-> dataset_list,
     skipped |-> skipped]

\* Lines 129-138: not a digital TV service, a network that is not included,
\* or no short_info.
Unusable(service_type, event_info, include_network_ids) ==
    \/ service_type # 1
    \/ event_info.onid \notin include_network_ids
    \/ "short_info" \notin event_info.keys

\* The nested for loops with the id check dropped (lines 146-149 missing).
RECURSIVE format_events_NoIdCheck(_, _, _, _, _)
format_events_NoIdCheck(events, include_network_ids, unique_set, dataset_list, skipped) ==
    IF events = <<>> THEN LoopState(FALSE, unique_set, dataset_list, skipped)
    ELSE LET event_info == Head(events).event_info IN
         IF Malformed(event_info)
         THEN LoopState(TRUE, unique_set, dataset_list, skipped)
         ELSE IF Unusable(Head(events).service_type, event_info, include_network_ids)
         THEN format_events_NoIdCheck(Tail(events), include_network_ids, unique_set,
                                      dataset_list, skipped)
         ELSE format_events_NoIdCheck(Tail(events), include_network_ids,
                            unique_set \cup {epg_id(event_info)},
                            Append(dataset_list, EPGDataset(epg_id(event_info), event_info)),
                            skipped)

\* The nested for loops with the two asserts turned into a skip of the
\* record.
RECURSIVE format_events_SkipMalformed(_, _, _, _, _)
format_events_SkipMalformed(events, include_network_ids, unique_set, dataset_list, skipped) ==
    IF events = <<>> THEN LoopState(FALSE, unique_set, dataset_list, skipped)
    ELSE LET event_info == Head(events).event_info IN
         IF \/ Malformed(event_info)
            \/ Unusable(Head(events).service_type, event_info, include_network_ids)
         THEN format_events_SkipMalformed(Tail(events), include_network_ids, unique_set,
                                          dataset_list, skipped)
         ELSE IF epg_id(event_info) \in unique_set
         THEN format_events_SkipMalformed(Tail(events), include_network_ids, unique_set,
                                          dataset_list, skipped \cup {epg_id(event_info)})
         ELSE format_events_SkipMalformed(Tail(events), include_network_ids,
                            unique_set \cup {epg_id(event_info)},
                            Append(dataset_list, EPGDataset(epg_id(event_info), event_info)),
                            skipped)

\* The nested for loops of lines 121-178 over the events left: the run
\* aborts (AssertionError) at the first event without start_time or
\* duration_sec, before any filter looks at it.
RECURSIVE format_events(_, _, _, _, _)
format_events(events, include_network_ids, unique_set, dataset_list, skipped) ==
    IF events = <<>> THEN LoopState(FALSE, unique_set, dataset_list, skipped)
    ELSE LET event_info == Head(events).event_info IN
         IF Malformed(event_info)                                  \* lines 124-125
         THEN LoopState(TRUE, unique_set, dataset_list, skipped)
         ELSE IF Unusable(Head(events).service_type, event_info, include_network_ids)
         THEN format_events(Tail(events), include_network_ids, unique_set,
                            dataset_list, skipped)
         ELSE IF epg_id(event_info) \in unique_set                 \* lines 146-148
         THEN format_events(Tail(events), include_network_ids, unique_set,
                            dataset_list, skipped \cup {epg_id(event_info)})
         ELSE format_events(Tail(events), include_network_ids,     \* lines 149-178
                            unique_set \cup {epg_id(event_info)},
                            Append(dataset_list, EPGDataset(epg_id(event_info), event_info)),
                            skipped)

\* The 'Warning: ...' lines of one window (lines 93-94 and 115-116): one for
\* each call that was made and returned None.
FetchWarnings(window, result, in_future, future_result) ==
    (IF result.is_none
     THEN {[window |-> window, line |-> "Warning: past", id |-> <<>>]} ELSE {})
    \cup (IF in_future /\ future_result.is_none
          THEN {[window |-> window, line |-> "Warning: future", id |-> <<>>]} ELSE {})

\* What the file at dataset_path may hold before the run when it exists:
\* nothing, or a line of an earlier run.
ExistingDatasetFiles ==
    LET event_info == DsEvent(31, 0, 4, 536, "n3", AllKeys)
    IN  {<<>>, <<EPGDataset(epg_id(event_info), event_info)>>}

DatasetInit ==
    /\ ds_pc = "start"
    /\ ds_start_date \in 0..MaxStartDate
    /\ ds_end_date \in 0..MaxEndDate
    /\ ds_current_start_date = 0
    /\ ds_current_end_date = 0
    /\ ds_unique_set = {}
    /\ ds_service_event_info_list = <<>>
    /\ ds_path_exists \in BOOLEAN
    /\ ds_dataset_file \in (IF ds_path_exists THEN ExistingDatasetFiles ELSE {<<>>})
    /\ ds_log = {}

DatasetIdle ==
    /\ ds_pc = "start"
    /\ ds_start_date = 0
    /\ ds_end_date = 0
    /\ ds_current_start_date = 0
    /\ ds_current_end_date = 0
    /\ ds_unique_set = {}
    /\ ds_service_event_info_list = <<>>
    /\ ds_path_exists = FALSE
    /\ ds_dataset_file = <<>>
    /\ ds_log = {}

\* The file opened for writing before the test of line 41: an existing
\* file is truncated.
DatasetExists_OpenedFirst ==
    /\ ds_pc = "start"
    /\ ds_path_exists
    /\ ds_pc' = "exists"
    /\ ds_dataset_file' = <<>>
    /\ UNCHANGED <<ds_start_date, ds_end_date, ds_current_start_date, ds_current_end_date,
                   ds_unique_set, ds_service_event_info_list, ds_path_exists, ds_log>>

\* Lines 40-43: the path exists, main returns.
DatasetExists ==
    /\ ds_pc = "start"
    /\ ds_path_exists
    /\ ds_pc' = "exists"
    /\ UNCHANGED <<ds_start_date, ds_end_date, ds_current_start_date, ds_current_end_date,
                   ds_unique_set, ds_service_event_info_list, ds_path_exists,
                   ds_dataset_file, ds_log>>

\* Lines 45-69: the file is opened for writing, the loop variable is set.
DatasetOpen ==
    /\ ds_pc = "start"
    /\ ~ds_path_exists
    /\ ds_pc' = "while"
    /\ ds_path_exists' = TRUE
    /\ ds_dataset_file' = <<>>
    /\ ds_unique_set' = {}
    /\ ds_current_start_date' = ds_start_date
    /\ UNCHANGED <<ds_start_date, ds_end_date, ds_current_end_date,
                   ds_service_event_info_list, ds_log>>

\* The fetch of a window with a client call that returned None ending the
\* run.
DatasetFetch_NoneAborts ==
    /\ ds_pc = "while"
    /\ ds_current_start_date < ds_end_date
    /\ ds_current_end_date' = Min(ds_current_start_date + Week, ds_end_date)
    /\ \E result \in ClientResults(MaxEvents), in_future \in BOOLEAN,
          future_result \in ClientResults(MaxFutureEvents) :
          /\ ds_service_event_info_list' =
                 result.list \o (IF in_future THEN future_result.list ELSE <<>>)
          /\ ds_log' = ds_log \cup FetchWarnings(ds_current_start_date, result,
                                                 in_future, future_result)
          /\ ds_pc' = (IF result.is_none THEN "aborted" ELSE "process")
    /\ UNCHANGED <<ds_start_date, ds_end_date, ds_current_start_date, ds_unique_set,
                   ds_path_exists, ds_dataset_file>>

\* Lines 70-118: the window is set and fetched; the second call is made
\* when the window ends after the current time (any time may be current).
\* A call that returns None prints a warning and adds nothing to
\* service_event_info_list.
DatasetFetch ==
    /\ ds_pc = "while"
    /\ ds_current_start_date < ds_end_date
    /\ ds_current_end_date' = Min(ds_current_start_date + Week, ds_end_date)
    /\ \E result \in ClientResults(MaxEvents), in_future \in BOOLEAN,
          future_result \in ClientResults(MaxFutureEvents) :
          /\ ds_service_event_info_list' =
                 result.list \o (IF in_future THEN future_result.list ELSE <<>>)
          /\ ds_log' = ds_log \cup FetchWarnings(ds_current_start_date, result,
                                                 in_future, future_result)
    /\ ds_pc' = "process"
    /\ UNCHANGED <<ds_start_date, ds_end_date, ds_current_start_date, ds_unique_set,
                   ds_path_exists, ds_dataset_file>>

\* Lines 120-189: the events of the window are formatted, sorted by id and
\* written; an AssertionError leaves the with block, which closes the file.
\* service_event_info_list is not read again before line 76 rebinds it.
DatasetProcess ==
    /\ ds_pc = "process"
    /\ LET formatted == format_events(NestedLoopOrder(ds_service_event_info_list),
                                      DEFAULT_INCLUDE_NETWORK_IDS, ds_unique_set, <<>>, {}) IN
       /\ ds_log' = ds_log
              \cup {[window |-> ds_current_start_date, line |-> "Skip", id |-> i] :
                       i \in formatted.skipped}
              \cup (IF formatted.aborted THEN {}
                    ELSE {[window |-> ds_current_start_date, line |-> "Add", id |-> i] :
                            i \in {d.id : d \in Range(formatted.dataset_list)}})
       /\ IF formatted.aborted
          THEN /\ ds_pc' = "aborted"
               /\ UNCHANGED <<ds_unique_set, ds_dataset_file, ds_current_start_date,
                              ds_service_event_info_list>>
          ELSE /\ ds_pc' = "while"
               /\ ds_unique_set' = formatted.unique_set
               /\ ds_dataset_file' = ds_dataset_file \o SortById(formatted.dataset_list)
               /\ ds_current_start_date' = ds_current_end_date
               /\ ds_service_event_info_list' = <<>>
    /\ UNCHANGED <<ds_start_date, ds_end_date, ds_current_end_date, ds_path_exists>>

\* Line 70 is false: the with block ends, the file is closed.
DatasetDone ==
    /\ ds_pc = "while"
    /\ ~(ds_current_start_date < ds_end_date)
    /\ ds_pc' = "done"
    /\ UNCHANGED <<ds_start_date, ds_end_date, ds_current_start_date, ds_current_end_date,
                   ds_unique_set, ds_service_event_info_list, ds_path_exists,
                   ds_dataset_file, ds_log>>

(***************************************************************************)
(* The subset generator (02-GenerateEPGDatasetSubset.py).                  *)
(*                                                                         *)
(* A record keeps the fields the program reads: id, network_id,            *)
(* service_id, title, description, major_genre_id, middle_genre_id,        *)
(* start_time and weight.  start_time is the datetime of the ISO string.   *)
(* A weight is counted in units of 1/60000, in which every product of      *)
(* get_weight is a whole number: months_diff / 60 + 1 is                   *)
(* (months_diff + 60) * 1000 units.                                        *)
(***************************************************************************)
Whitespace == {" ", "\t", "\n"}

\* str.strip(): leading and trailing whitespace removed.
RECURSIVE str_lstrip(_)
str_lstrip(string) ==
    IF string # <<>> /\ Head(string) \in Whitespace THEN str_lstrip(Tail(string)) ELSE string

RECURSIVE str_rstrip(_)
str_rstrip(string) ==
    IF string # <<>> /\ string[Len(string)] \in Whitespace
    THEN str_rstrip(SubSeq(string, 1, Len(string) - 1)) ELSE string

str_strip(string) == str_rstrip(str_lstrip(string))

\* meets_condition without the shopping test of lines 29-30.
meets_condition_WithoutShopping(data) ==
    IF data.major_genre_id >= 12 THEN FALSE
    ELSE IF data.major_genre_id = -1 \/ data.middle_genre_id = -1 THEN FALSE
    ELSE IF str_strip(data.title) = <<>> THEN FALSE
    ELSE TRUE

meets_condition(data) ==
    IF data.major_genre_id = 2 /\ data.middle_genre_id = 4 THEN FALSE
    ELSE IF data.major_genre_id >= 12 THEN FALSE
    ELSE IF data.major_genre_id = -1 \/ data.middle_genre_id = -1 THEN FALSE
    ELSE IF str_strip(data.title) = <<>> THEN FALSE
    ELSE TRUE

\* The first argument, whatever the second: months_diff left unclamped.
Max_Unclamped(a, b) == a

Max(a, b) == IF a >= b THEN a ELSE b

\* weight /= num / den in the place of weight *= num / den.
Times_Divided(weight, num, den) == (weight * den) \div num

\* weight *= num / den, on weights counted in units.
Times(weight, num, den) == (weight * num) \div den

\* The recency weight of lines 45-49 returned without the cascade.
get_weight_BaseOnly(data) ==
    LET start_time == data.start_time
        months_diff == Max((start_time.year - 2019) * 12 + start_time.month - 10, 0)
    IN  (months_diff + 60) * 1000

get_weight(data) ==
    LET start_time == data.start_time
        months_diff == Max((start_time.year - 2019) * 12 + start_time.month - 10, 0)
        weight == (months_diff + 60) * 1000
    IN  IF data.major_genre_id = 0 /\ data.middle_genre_id = 0
        THEN Times(weight, 7, 10)
        ELSE IF data.major_genre_id = 1 /\ is_terrestrial(data.network_id)
        THEN Times(weight, 15, 10)
        ELSE IF data.major_genre_id = 3 /\ data.middle_genre_id = 0
                /\ is_terrestrial(data.network_id)
        THEN IF ~(4 <= start_time.hour /\ start_time.hour <= 17)
             THEN Times(weight, 32, 10) ELSE weight
        ELSE IF data.major_genre_id = 3 /\ data.middle_genre_id = 0
                /\ ~is_terrestrial(data.network_id)
        THEN Times(weight, 25, 100)
        ELSE IF data.major_genre_id = 3 /\ data.middle_genre_id = 1
        THEN Times(weight, 25, 100)
        ELSE IF data.major_genre_id = 5 /\ is_terrestrial(data.network_id)
        THEN Times(weight, 11, 10)
        ELSE IF data.major_genre_id = 6
                /\ (is_terrestrial(data.network_id)
                    \/ is_free_bs(data.network_id, data.service_id))
        THEN IF data.middle_genre_id = 2
             THEN Times(Times(weight, 22, 10), 17, 10) ELSE Times(weight, 22, 10)
        ELSE IF data.major_genre_id = 7 /\ data.middle_genre_id = 0
                /\ (is_terrestrial(data.network_id)
                    \/ is_free_bs(data.network_id, data.service_id))
        THEN IF ~(4 <= start_time.hour /\ start_time.hour <= 20)
             THEN Times(weight, 22, 10) ELSE weight
        ELSE IF data.major_genre_id = 8 /\ is_terrestrial(data.network_id)
        THEN Times(weight, 11, 10)
        ELSE IF data.major_genre_id = 10
        THEN Times(weight, 8, 10)
        ELSE IF data.network_id = 7 /\ data.service_id = 333 /\ data.major_genre_id = 7
        THEN Times(weight, 13, 10)
        ELSE weight

\* a < b on datetimes of one time zone.
DatetimeLess(a, b) ==
    LET fa == <<a.year, a.month, a.day, a.hour, a.minute, a.second>>
        fb == <<b.year, b.month, b.day, b.hour, b.minute, b.second>>
    IN  \E k \in 1..6 : fa[k] < fb[k] /\ \A j \in 1..(k - 1) : fa[j] = fb[j]

\* The key of line 161 taken from the id instead of the texts.
unique_key_OfId(data) == <<data.id>>

\* Line 161.
unique_key(data) == <<data.title, data.description>>

\* int(subset_size * 0.65) with the proportion rounded up instead of down.
category_size_RoundedUp(subset_size, percent) ==
    (subset_size * percent + 99) \div 100

\* int(subset_size * 0.65), int(subset_size * 0.25), int(subset_size * 0.10)
\* (lines 198-200) for subset_size >= 0; the proportion is given in percent.
\* The float product of an integer with 0.65, 0.25 or 0.10 never crosses an
\* integer that the exact product does not reach.
category_size(subset_size, percent) ==
    (subset_size * percent) \div 100

\* The items of data_list at the indices sample_data chose.
Picked(data_list, indices) == [n \in 1..Len(indices) |-> data_list[indices[n]]]

\* A sampling that returns the whole pool, in any order, whatever the target.
sample_records_WholePool(data_list, target_size) ==
    { Picked(data_list, indices) :
        indices \in sample_data([i \in 1..Len(data_list) |-> data_list[i].weight],
                                Len(data_list)) }

\* Every return value of sample_data(data_list, target_size).
sample_records(data_list, target_size) ==
    { Picked(data_list, indices) :
        indices \in sample_data([i \in 1..Len(data_list) |-> data_list[i].weight],
                                target_size) }

\* list.remove(x): the first item equal to x is removed.
RECURSIVE list_remove(_, _)
list_remove(list, x) ==
    IF list = <<>> THEN <<>>
    ELSE IF Head(list) = x THEN Tail(list)
    ELSE <<Head(list)>> \o list_remove(Tail(list), x)

\* Lines 211-216: the for loop over subsets that removes from subsets.  The
\* list iterator holds an index (here 1-based) and stops when it passes the
\* end of the list as it is then; after a remove the items behind the
\* removed one have moved one place down, so the next one is not visited.
RECURSIVE remove_duplicate_ids(_, _, _)
remove_duplicate_ids(subsets, index, unique_ids) ==
    IF index > Len(subsets) THEN subsets
    ELSE LET subset == subsets[index] IN
         IF subset.id \in unique_ids
         THEN remove_duplicate_ids(list_remove(subsets, subset), index + 1,
                                   unique_ids \cup {subset.id})
         ELSE remove_duplicate_ids(subsets, index + 1, unique_ids \cup {subset.id})

\* model_dump(mode='json') without the exclude: the weight is written too.
model_dump_all(subset) == subset

\* model_dump(mode='json', exclude={'weight'}).
model_dump_exclude_weight(subset) ==
    [f \in (DOMAIN subset) \ {"weight"} |-> subset[f]]

MaxInput == 3          \* lines of the dataset file
MaxSubsetSize == 10    \* subset_size is drawn from 0..MaxSubsetSize

Datetime(year, month, day, hour) ==
    [year |-> year, month |-> month, day |-> day, hour |-> hour, minute |-> 0,
     second |-> 0]

\* The ids of the input and the start time each id stands for (an id begins
\* with its start time): one before the anchor month 2019-10, one after it.
InputIds == {<<"2", "0", "1", "9">>, <<"2", "0", "2", "4">>}

StartTimeOf(id) ==
    IF id = <<"2", "0", "1", "9">> THEN Datetime(2019, 9, 30, 3)
    ELSE Datetime(2024, 3, 15, 20)

\* (title, description): a blank and an empty title, and three pairs of
\* which two share the title and two share the description.
InputTexts ==
    { <<<<>>, <<"x">>>>, <<<<" ">>, <<"x">>>>,
      <<<<"A">>, <<"x">>>>, <<<<"A">>, <<"y">>>>, <<<<"B">>, <<"x">>>> }

\* (network_id, service_id): terrestrial, free BS, paid BS, none of them.
InputChannels == {<<32736, 1024>>, <<4, 101>>, <<4, 200>>, <<1, 1024>>}

\* (major_genre_id, middle_genre_id): domestic drama, shopping, unknown,
\* absent, middle genre absent.
InputGenres == {<<3, 0>>, <<2, 4>>, <<12, 0>>, <<-1, -1>>, <<3, -1>>}

\* The lines a dataset file may hold, as validated records (weight = 1.0).
InputRecords ==
    { [id |-> id, network_id |-> channel[1], service_id |-> channel[2],
       title |-> text[1], description |-> text[2],
       major_genre_id |-> genre[1], middle_genre_id |-> genre[2],
       start_time |-> StartTimeOf(id), weight |-> 60000] :
        id \in InputIds, text \in InputTexts, channel \in InputChannels,
        genre \in InputGenres }

\* An Optional[datetime] is a sequence: <<>> for None, <<d>> for d.
None == <<>>

NoSkips == [reason \in {"condition", "before", "after", "duplicate"} |-> 0]

\* What the file at subset_path may hold before the run when it exists:
\* nothing, or a line of an earlier run.
ExistingSubsetFiles ==
    {<<>>,
     <<[id |-> <<"2", "0", "1", "9">>, network_id |-> 32736, service_id |-> 1024,
        title |-> <<"A">>, description |-> <<"x">>,
        major_genre_id |-> 3, middle_genre_id |-> 0,
        start_time |-> StartTimeOf(<<"2", "0", "1", "9">>)]>>}

SubsetInit ==
    /\ sg_pc = "start"
    /\ sg_subset_size \in 0..MaxSubsetSize
    /\ sg_start_date \in {None, <<StartTimeOf(<<"2", "0", "2", "4">>)>>}
    /\ sg_end_date \in {None, <<StartTimeOf(<<"2", "0", "1", "9">>)>>}
    /\ sg_path_exists \in BOOLEAN
    /\ sg_all_epg_count = 0
    /\ sg_all_epg_data = <<>>
    /\ sg_terrestrial_data = <<>>
    /\ sg_free_bs_data = <<>>
    /\ sg_paid_bs_cs_data = <<>>
    /\ sg_unique_keys = {}
    /\ sg_skipped = NoSkips
    /\ sg_sampled = <<<<>>, <<>>, <<>>>>
    /\ sg_subsets = <<>>
    /\ sg_subset_file \in (IF sg_path_exists THEN ExistingSubsetFiles ELSE {<<>>})

SubsetIdle ==
    /\ sg_pc = "start"
    /\ sg_subset_size = 0
    /\ sg_start_date = None
    /\ sg_end_date = None
    /\ sg_path_exists = FALSE
    /\ sg_all_epg_count = 0
    /\ sg_all_epg_data = <<>>
    /\ sg_terrestrial_data = <<>>
    /\ sg_free_bs_data = <<>>
    /\ sg_paid_bs_cs_data = <<>>
    /\ sg_unique_keys = {}
    /\ sg_skipped = NoSkips
    /\ sg_sampled = <<<<>>, <<>>, <<>>>>
    /\ sg_subsets = <<>>
    /\ sg_subset_file = <<>>

\* Lines 125-127: the path exists, main returns.
SubsetExists ==
    /\ sg_pc = "start"
    /\ sg_path_exists
    /\ sg_pc' = "exists"
    /\ UNCHANGED <<sg_subset_size, sg_start_date, sg_end_date, sg_path_exists,
                   sg_all_epg_count, sg_all_epg_data, sg_terrestrial_data,
                   sg_free_bs_data, sg_paid_bs_cs_data, sg_unique_keys, sg_skipped,
                   sg_sampled, sg_subsets, sg_subset_file>>

\* Lines 129-147: the lists are created and the dataset file is opened.
SubsetOpen ==
    /\ sg_pc = "start"
    /\ ~sg_path_exists
    /\ sg_pc' = "read"
    /\ UNCHANGED <<sg_subset_size, sg_start_date, sg_end_date, sg_path_exists,
                   sg_all_epg_count, sg_all_epg_data, sg_terrestrial_data,
                   sg_free_bs_data, sg_paid_bs_cs_data, sg_unique_keys, sg_skipped,
                   sg_sampled, sg_subsets, sg_subset_file>>

Skip(reason) ==
    /\ sg_skipped' = [sg_skipped EXCEPT ![reason] = @ + 1]
    /\ UNCHANGED <<sg_all_epg_data, sg_terrestrial_data, sg_free_bs_data,
                   sg_paid_bs_cs_data, sg_unique_keys>>

\* The read loop with the key added to unique_keys before the tests of
\* lines 151-159.
SubsetRead_KeyBeforeChecks ==
    /\ sg_pc = "read"
    /\ sg_all_epg_count < MaxInput
    /\ \E obj \in InputRecords :
         /\ sg_all_epg_count' = sg_all_epg_count + 1
         /\ sg_unique_keys' = sg_unique_keys \cup {unique_key(obj)}
         /\ IF ~meets_condition(obj)
               \/ (sg_start_date # None /\ DatetimeLess(obj.start_time, sg_start_date[1]))
               \/ (sg_end_date # None /\ DatetimeLess(sg_end_date[1], obj.start_time))
               \/ unique_key(obj) \in sg_unique_keys
            THEN UNCHANGED <<sg_skipped, sg_all_epg_data, sg_terrestrial_data,
                             sg_free_bs_data, sg_paid_bs_cs_data>>
            ELSE LET data == [obj EXCEPT !.weight = get_weight(obj)] IN
                 /\ sg_all_epg_data' = Append(sg_all_epg_data, data)
                 /\ sg_terrestrial_data' =
                        IF is_terrestrial(data.network_id)
                        THEN Append(sg_terrestrial_data, data) ELSE sg_terrestrial_data
                 /\ sg_free_bs_data' =
                        IF ~is_terrestrial(data.network_id)
                           /\ is_free_bs(data.network_id, data.service_id)
                        THEN Append(sg_free_bs_data, data) ELSE sg_free_bs_data
                 /\ sg_paid_bs_cs_data' =
                        IF ~is_terrestrial(data.network_id)
                           /\ ~is_free_bs(data.network_id, data.service_id)
                           /\ is_paid_bs_cs(data.network_id, data.service_id)
                        THEN Append(sg_paid_bs_cs_data, data) ELSE sg_paid_bs_cs_data
                 /\ UNCHANGED sg_skipped
    /\ UNCHANGED <<sg_pc, sg_subset_size, sg_start_date, sg_end_date, sg_path_exists,
                   sg_sampled, sg_subsets, sg_subset_file>>

\* Lines 148-174: one iteration of the read loop, on the next line of the
\* dataset file.
SubsetRead ==
    /\ sg_pc = "read"
    /\ sg_all_epg_count < MaxInput
    /\ \E obj \in InputRecords :
         /\ sg_all_epg_count' = sg_all_epg_count + 1
         /\ IF ~meets_condition(obj) THEN Skip("condition")
            ELSE IF sg_start_date # None /\ DatetimeLess(obj.start_time, sg_start_date[1])
            THEN Skip("before")
            ELSE IF sg_end_date # None /\ DatetimeLess(sg_end_date[1], obj.start_time)
            THEN Skip("after")
            ELSE IF unique_key(obj) \in sg_unique_keys THEN Skip("duplicate")
            ELSE LET data == [obj EXCEPT !.weight = get_weight(obj)] IN
                 /\ sg_unique_keys' = sg_unique_keys \cup {unique_key(obj)}
                 /\ sg_all_epg_data' = Append(sg_all_epg_data, data)
                 /\ sg_terrestrial_data' =
                        IF is_terrestrial(data.network_id)
                        THEN Append(sg_terrestrial_data, data) ELSE sg_terrestrial_data
                 /\ sg_free_bs_data' =
                        IF ~is_terrestrial(data.network_id)
                           /\ is_free_bs(data.network_id, data.service_id)
                        THEN Append(sg_free_bs_data, data) ELSE sg_free_bs_data
                 /\ sg_paid_bs_cs_data' =
                        IF ~is_terrestrial(data.network_id)
                           /\ ~is_free_bs(data.network_id, data.service_id)
                           /\ is_paid_bs_cs(data.network_id, data.service_id)
                        THEN Append(sg_paid_bs_cs_data, data) ELSE sg_paid_bs_cs_data
                 /\ UNCHANGED sg_skipped
    /\ UNCHANGED <<sg_pc, sg_subset_size, sg_start_date, sg_end_date, sg_path_exists,
                   sg_sampled, sg_subsets, sg_subset_file>>

\* Lines 198-205: the dataset file has ended; the three calls of
\* sample_data, concatenated into subsets.
SubsetSample ==
    /\ sg_pc = "read"
    /\ \E terrestrial \in sample_records(sg_terrestrial_data,
                                         category_size(sg_subset_size, 65)),
          free_bs \in sample_records(sg_free_bs_data,
                                     category_size(sg_subset_size, 25)),
          paid_bs_cs \in sample_records(sg_paid_bs_cs_data,
                                        category_size(sg_subset_size, 10)) :
         /\ sg_sampled' = <<terrestrial, free_bs, paid_bs_cs>>
         /\ sg_subsets' = terrestrial \o free_bs \o paid_bs_cs
    /\ sg_pc' = "sampled"
    /\ UNCHANGED <<sg_subset_size, sg_start_date, sg_end_date, sg_path_exists,
                   sg_all_epg_count, sg_all_epg_data, sg_terrestrial_data,
                   sg_free_bs_data, sg_paid_bs_cs_data, sg_unique_keys, sg_skipped,
                   sg_subset_file>>

\* Lines 207-272: sort by id, the duplicate-id pass, the statistics and the
\* write.  The percentages of lines 242-266 divide by total_count: with an
\* empty subsets line 242 raises ZeroDivisionError, which nothing catches,
\* and the subset file is never opened.
SubsetFinish ==
    /\ sg_pc = "sampled"
    /\ LET subsets == remove_duplicate_ids(SortById(sg_subsets), 1, {})
           total_count == Len(subsets) IN
       /\ sg_subsets' = subsets
       /\ IF total_count = 0
          THEN /\ sg_pc' = "error"
               /\ UNCHANGED <<sg_path_exists, sg_subset_file>>
          ELSE /\ sg_pc' = "done"
               /\ sg_path_exists' = TRUE
               /\ sg_subset_file' =
                      [n \in 1..Len(subsets) |-> model_dump_exclude_weight(subsets[n])]
    /\ UNCHANGED <<sg_subset_size, sg_start_date, sg_end_date,
                   sg_all_epg_count, sg_all_epg_data, sg_terrestrial_data,
                   sg_free_bs_data, sg_paid_bs_cs_data, sg_unique_keys, sg_skipped,
                   sg_sampled>>

(***************************************************************************)
(* get_weight on its own (SpecWeight): the argument is drawn from start     *)
(* times on both sides of the anchor month and of the hour tests, the      *)
(* genres the cascade names and one it does not, and channels of every     *)
(* kind.                                                                   *)
(***************************************************************************)
WeightYears == {2010, 2019, 2024}
WeightMonths == {3, 10, 12}
WeightHours == {3, 4, 10, 17, 18, 20, 21}
WeightMinutes == {0, 30}

\* (major_genre_id, middle_genre_id)
WeightGenres ==
    {<<0, 0>>, <<0, 1>>, <<1, 0>>, <<3, 0>>, <<3, 1>>, <<4, 0>>, <<5, 0>>, <<6, 0>>,
     <<6, 2>>, <<7, 0>>, <<7, 1>>, <<8, 0>>, <<10, 0>>}

\* (network_id, service_id): terrestrial, free BS, paid BS, AT-X, another
\* CS service, none of the categories.
WeightChannels ==
    {<<32736, 1024>>, <<4, 101>>, <<4, 200>>, <<7, 333>>, <<7, 100>>, <<1, 1024>>}

WeightRecords ==
    { [network_id |-> channel[1], service_id |-> channel[2],
       major_genre_id |-> genre[1], middle_genre_id |-> genre[2],
       start_time |-> [year |-> year, month |-> month, day |-> 15, hour |-> hour,
                       minute |-> minute, second |-> 0]] :
        channel \in WeightChannels, genre \in WeightGenres, year \in WeightYears,
        month \in WeightMonths, hour \in WeightHours, minute \in WeightMinutes }

WeightInit ==
    /\ wt_data \in WeightRecords
    /\ wt_weight = 60000
    /\ wt_returned = FALSE

WeightIdle ==
    /\ wt_data = [network_id |-> 1, service_id |-> 1024,
                  major_genre_id |-> 4, middle_genre_id |-> 0,
                  start_time |-> [year |-> 2019, month |-> 10, day |-> 15, hour |-> 10,
                                  minute |-> 0, second |-> 0]]
    /\ wt_weight = 60000
    /\ wt_returned = FALSE

\* Line 167: data.weight = get_weight(data).
GetWeight ==
    /\ ~wt_returned
    /\ wt_weight' = get_weight(wt_data)
    /\ wt_returned' = TRUE
    /\ UNCHANGED wt_data

(***************************************************************************)
(* FormatString (utils/epg.py).  A string is a sequence of Unicode code    *)
(* points.                                                                 *)
(***************************************************************************)
\* merged_table (lines 28-50): full-width digits and letters (U+FF10-FF19,
\* U+FF21-FF3A, U+FF41-FF5A) and the full-width symbols of
\* symbol_zenkaku_table to their ASCII forms, which lie 0xFEE0 below them;
\* U+3000 to the space; "!", "?", "*" and "~" to their full-width forms;
\* U+266F to "#"; U+301C to U+FF5E.
format_string_translation(c) ==
    IF (65296 <= c /\ c <= 65305) \/ (65313 <= c /\ c <= 65338)
       \/ (65345 <= c /\ c <= 65370)
    THEN c - 65248
    ELSE IF c \in {65282, 65283, 65284, 65285, 65286, 65287, 65288, 65289, 65291,
                   65292, 65293, 65294, 65295, 65306, 65307, 65308, 65309, 65310,
                   65339, 65340, 65341, 65342, 65343, 65344, 65371, 65372, 65373}
    THEN c - 65248
    ELSE IF c = 12288 THEN 32
    ELSE IF c = 33 THEN 65281
    ELSE IF c = 63 THEN 65311
    ELSE IF c = 42 THEN 65290
    ELSE IF c = 126 THEN 65374
    ELSE IF c = 9839 THEN 35
    ELSE IF c = 12316 THEN 65374
    ELSE c

\* string.translate(__format_string_translation_map), line 55.
format_string_translate(string) ==
    [i \in 1..Len(string) |-> format_string_translation(string[i])]

\* __format_string_regex_table (lines 66-118), <<key, replacement>> in the
\* order of the dict, which is the order of the alternatives of the regex.
format_string_regex_table ==
    <<
       <<<<91, 72, 86, 93>>, <<127306>>>>,
       <<<<91, 83, 68, 93>>, <<127308>>>>,
       <<<<91, 80, 93>>, <<127295>>>>,
       <<<<91, 87, 93>>, <<127302>>>>,
       <<<<91, 77, 86, 93>>, <<127307>>>>,
       <<<<91, 25163, 93>>, <<127504>>>>,
       <<<<91, 23383, 93>>, <<127505>>>>,
       <<<<91, 21452, 93>>, <<127506>>>>,
       <<<<91, 12487, 93>>, <<127507>>>>,
       <<<<91, 83, 93>>, <<127298>>>>,
       <<<<91, 20108, 93>>, <<127508>>>>,
       <<<<91, 22810, 93>>, <<127509>>>>,
       <<<<91, 35299, 93>>, <<127510>>>>,
       <<<<91, 83, 83, 93>>, <<127309>>>>,
       <<<<91, 66, 93>>, <<127281>>>>,
       <<<<91, 78, 93>>, <<127293>>>>,
       <<<<91, 22825, 93>>, <<127511>>>>,
       <<<<91, 20132, 93>>, <<127512>>>>,
       <<<<91, 26144, 93>>, <<127513>>>>,
       <<<<91, 28961, 93>>, <<127514>>>>,
       <<<<91, 26009, 93>>, <<127515>>>>,
       <<<<91, 12539, 93>>, <<9919>>>>,
       <<<<91, 21069, 93>>, <<127516>>>>,
       <<<<91, 24460, 93>>, <<127517>>>>,
       <<<<91, 20877, 93>>, <<127518>>>>,
       <<<<91, 26032, 93>>, <<127519>>>>,
       <<<<91, 21021, 93>>, <<127520>>>>,
       <<<<91, 32066, 93>>, <<127521>>>>,
       <<<<91, 29983, 93>>, <<127522>>>>,
       <<<<91, 36009, 93>>, <<127523>>>>,
       <<<<91, 22768, 93>>, <<127524>>>>,
       <<<<91, 21561, 93>>, <<127525>>>>,
       <<<<91, 80, 80, 86, 93>>, <<127310>>>>,
       <<<<40, 31192, 41>>, <<12953>>>>,
       <<<<91, 12411, 12363, 93>>, <<127488>>>>,
       <<<<109, 94, 50>>, <<109, 178>>>>,
       <<<<109, 94, 51>>, <<109, 179>>>>,
       <<<<99, 109, 94, 50>>, <<99, 109, 178>>>>,
       <<<<99, 109, 94, 51>>, <<99, 109, 179>>>>,
       <<<<107, 109, 94, 50>>, <<107, 109, 178>>>>,
       <<<<91, 31038, 93>>, <<12851>>>>,
       <<<<91, 36001, 93>>, <<12854>>>>,
       <<<<91, 26377, 93>>, <<12850>>>>,
       <<<<91, 26666, 93>>, <<12849>>>>,
       <<<<91, 20195, 93>>, <<12857>>>>,
       <<<<40, 21839, 41>>, <<12868>>>>,
       <<<<94, 50>>, <<178>>>>,
       <<<<94, 51>>, <<179>>>>,
       <<<<40, 31631, 41>>, <<12871>>>>,
       <<<<40, 12306, 41>>, <<12342>>>>,
       <<<<40, 41, 40, 41>>, <<9918>>>>
    >>

\* key occurs in string at position i.
MatchesAt(string, i, key) ==
    /\ i + Len(key) - 1 <= Len(string)
    /\ \A k \in 1..Len(key) : string[i + k - 1] = key[k]

\* __format_string_regex.sub(...), line 123: at the leftmost position where
\* an alternative matches, the first alternative that matches there is
\* replaced, and the scan goes on behind the match.
RECURSIVE format_string_regex_sub(_, _)
format_string_regex_sub(string, i) ==
    IF i > Len(string) THEN <<>>
    ELSE LET table == format_string_regex_table
             matching == {n \in 1..Len(table) : MatchesAt(string, i, table[n][1])}
         IN  IF matching = {}
             THEN <<string[i]>> \o format_string_regex_sub(string, i + 1)
             ELSE LET n == CHOOSE n \in matching : \A k \in matching : n <= k
                  IN  table[n][2] \o format_string_regex_sub(string, i + Len(table[n][1]))

\* result.replace('\r\n', '\n'), line 126: the occurrences of CR LF found in
\* one scan from the left, each replaced by LF.
RECURSIVE replace_crlf(_, _)
replace_crlf(string, i) ==
    IF i > Len(string) THEN <<>>
    ELSE IF MatchesAt(string, i, <<13, 10>>)
         THEN <<10>> \o replace_crlf(string, i + 2)
         ELSE <<string[i]>> \o replace_crlf(string, i + 1)

FormatString(string) ==
    replace_crlf(format_string_regex_sub(format_string_translate(string), 1), 1)

MaxFormatLen == 4      \* the longest string given to FormatString

\* CR, LF, "[", "]", "S", full-width "S", "^", "2", "m", "!".
FormatChars == {13, 10, 91, 93, 83, 65331, 94, 50, 109, 33}

FormatInit ==
    /\ fs_string \in SeqsUpTo(FormatChars, MaxFormatLen)
    /\ fs_first = <<>>
    /\ fs_result = <<>>
    /\ fs_calls = 0

FormatIdle ==
    /\ fs_string = <<>>
    /\ fs_first = <<>>
    /\ fs_result = <<>>
    /\ fs_calls = 0

\* FormatString called on the string, then on what that call returned.
FormatStringCall ==
    /\ fs_calls < 2
    /\ LET result == FormatString(IF fs_calls = 0 THEN fs_string ELSE fs_result) IN
       /\ fs_result' = result
       /\ fs_first' = IF fs_calls = 0 THEN result ELSE fs_first
    /\ fs_calls' = fs_calls + 1
    /\ UNCHANGED fs_string

(***************************************************************************)
(* RemoveSymbols (utils/epg.py), on strings over these characters: the     *)
(* word U+30A2 U+30CB U+30E1 (a-ni-me), the space, U+30FB (middle dot),    *)
(* "X", "[", "]", U+5B57 (the mark ji), U+3010, U+3011 (lenticular         *)
(* brackets) and U+1F211 (squared ji), and on the strings made of one      *)
(* character of enclosed_characters_table.  On such strings the steps      *)
(* below are the only ones of RemoveSymbols that can change anything:      *)
(* every other re.sub of lines 210-353 has a pattern that needs a          *)
(* character these strings and their translations do not have.  A string   *)
(* is a sequence of code points.                                           *)
(***************************************************************************)
\* enclosed_characters_table (lines 149-183), <<character, replacement>>.
enclosed_characters_table ==
    <<
       <<127306, <<91, 72, 86, 93>>>>,
       <<127308, <<91, 83, 68, 93>>>>,
       <<127295, <<91, 80, 93>>>>,
       <<127302, <<91, 87, 93>>>>,
       <<127307, <<91, 77, 86, 93>>>>,
       <<127504, <<91, 25163, 93>>>>,
       <<127505, <<91, 23383, 93>>>>,
       <<127506, <<91, 21452, 93>>>>,
       <<127507, <<91, 12487, 93>>>>,
       <<127298, <<91, 83, 93>>>>,
       <<127508, <<91, 20108, 93>>>>,
       <<127509, <<91, 22810, 93>>>>,
       <<127510, <<91, 35299, 93>>>>,
       <<127309, <<91, 83, 83, 93>>>>,
       <<127281, <<91, 66, 93>>>>,
       <<127293, <<91, 78, 93>>>>,
       <<127511, <<91, 22825, 93>>>>,
       <<127512, <<91, 20132, 93>>>>,
       <<127513, <<91, 26144, 93>>>>,
       <<127514, <<91, 28961, 93>>>>,
       <<127515, <<91, 26009, 93>>>>,
       <<127516, <<91, 21069, 93>>>>,
       <<127517, <<91, 24460, 93>>>>,
       <<9919, <<91, 12539, 93>>>>,
       <<127518, <<91, 20877, 93>>>>,
       <<127519, <<91, 26032, 93>>>>,
       <<127520, <<91, 21021, 93>>>>,
       <<127521, <<91, 32066, 93>>>>,
       <<127522, <<91, 29983, 93>>>>,
       <<127523, <<91, 36009, 93>>>>,
       <<127524, <<91, 22768, 93>>>>,
       <<127525, <<91, 21561, 93>>>>,
       <<127310, <<91, 80, 80, 86, 93>>>>
    >>

\* string.translate(__enclosed_characters_translation_map), line 189.
RECURSIVE enclosed_characters_translate(_)
enclosed_characters_translate(string) ==
    IF string = <<>> THEN <<>>
    ELSE LET table == enclosed_characters_table
             found == {n \in 1..Len(table) : table[n][1] = Head(string)}
         IN  (IF found = {} THEN <<Head(string)>>
              ELSE table[CHOOSE n \in found : TRUE][2])
             \o enclosed_characters_translate(Tail(string))

\* The alternatives of mark (lines 195-197); -1 stands for the "." of
\* 5.1, 7.1 and 22.2, which as a regex matches any character but LF.
mark ==
    <<
       <<26032>>, <<32066>>, <<20877>>, <<20132>>, <<26144>>, <<25163>>,
       <<22768>>, <<22810>>, <<21103>>, <<23383>>, <<25991>>, <<67, 67>>,
       <<79, 80>>, <<20108>>, <<83>>, <<66>>, <<83, 83>>, <<28961>>,
       <<28961, 26009>>, <<67>>, <<83, 49>>, <<83, 50>>, <<83, 51>>,
       <<77, 86>>, <<21452>>, <<12487>>, <<68>>, <<78>>, <<87>>, <<80>>,
       <<72>>, <<72, 86>>, <<83, 68>>, <<22825>>, <<35299>>, <<26009>>,
       <<21069>>, <<24460, 21021>>, <<29983>>, <<36009>>, <<21561>>,
       <<80, 80, 86>>, <<28436>>, <<31227>>, <<20182>>, <<21454>>, <<12539>>,
       <<33521>>, <<38867>>, <<20013>>, <<23383, 47, 26085>>,
       <<23383, 47, 26085, 33521>>, <<51, 68>>, <<50, 75>>, <<52, 75>>,
       <<56, 75>>, <<53, -1, 49>>, <<55, -1, 49>>, <<50, 50, -1, 50>>,
       <<54, 48, 80>>, <<49, 50, 48, 80>>, <<100>>, <<72, 67>>,
       <<72, 68, 82>>, <<83, 72, 86>>, <<85, 72, 68>>, <<86, 79, 68>>,
       <<37197>>, <<21021>>
    >>

\* The alternatives of pattern1 (line 198).
pattern1_alternatives ==
    <<
       <<20108>>, <<23383>>, <<23383, 24149>>, <<20877>>,
       <<20877, 25918, 36865>>, <<21561>>, <<21561, 26367>>,
       <<28961, 26009>>, <<28961, 26009, 25918, 36865>>
    >>

\* The alternatives of the pattern of line 351.
anime_frame_alternatives ==
    <<
       <<12450, 12491, 12513>>,
       <<12450, 12491, 12513, 12471, 12515, 12527, 12540>>,
       <<12450, 12491, 12513, 29305, 21306>>,
       <<12450, 12491, 12513, 12452, 12474, 12512>>,
       <<12473, 12540, 12497, 12540, 12450, 12491, 12513, 12452, 12474, 12512>>,
       <<12492, 12510, 12491, 12513, 12540, 12471, 12519, 12531>>,
       <<65, 78, 105, 77, 65, 90, 105, 78, 71, 65281, 65281, 65281>>,
       <<65, 78, 105, 77, 65, 90, 105, 78, 71, 50, 65281, 65281, 65281>>
    >>

\* re.IGNORECASE on the ASCII letters.
Fold(c) == IF 65 <= c /\ c <= 90 THEN c + 32 ELSE c

\* The sequence open, alternative, close matches in string at position i.
BracketedMatchesAt(string, i, open, alternative, close, ignorecase) ==
    LET key == <<open>> \o alternative \o <<close>> IN
    /\ i + Len(key) - 1 <= Len(string)
    /\ \A k \in 1..Len(key) :
         LET c == string[i + k - 1] IN
         \/ key[k] = -1 /\ c # 10
         \/ key[k] = c
         \/ ignorecase /\ Fold(key[k]) = Fold(c)

\* re.sub of open (a1|a2|...) close by replacement: at every position,
\* from the left, where an alternative matches, the first such alternative
\* is replaced and the scan goes on behind it.
RECURSIVE sub_bracketed(_, _, _, _, _, _, _)
sub_bracketed(string, i, open, alternatives, close, ignorecase, replacement) ==
    IF i > Len(string) THEN <<>>
    ELSE LET matching == {n \in 1..Len(alternatives) :
                            BracketedMatchesAt(string, i, open, alternatives[n], close,
                                               ignorecase)}
         IN  IF matching = {}
             THEN <<string[i]>>
                  \o sub_bracketed(string, i + 1, open, alternatives, close, ignorecase,
                                   replacement)
             ELSE LET n == CHOOSE n \in matching : \A k \in matching : n <= k
                  IN  replacement
                      \o sub_bracketed(string, i + Len(alternatives[n]) + 2, open,
                                       alternatives, close, ignorecase, replacement)

\* The characters str.strip() removes.
IsSpace(c) ==
    \/ 9 <= c /\ c <= 13
    \/ 28 <= c /\ c <= 32
    \/ c \in {133, 160, 5760, 8232, 8233, 8239, 8287, 12288}
    \/ 8192 <= c /\ c <= 8202

RECURSIVE lstrip(_)
lstrip(string) ==
    IF string # <<>> /\ IsSpace(Head(string)) THEN lstrip(Tail(string)) ELSE string

RECURSIVE rstrip(_)
rstrip(string) ==
    IF string # <<>> /\ IsSpace(string[Len(string)])
    THEN rstrip(SubSeq(string, 1, Len(string) - 1)) ELSE string

\* result.strip(), lines 205 and 356.
strip(string) == rstrip(lstrip(string))

\* re.sub(r'^prefix', '', result): the prefix removed where the string
\* starts with it.
sub_prefix(string, prefix) ==
    IF MatchesAt(string, 1, prefix)
    THEN SubSeq(string, Len(prefix) + 1, Len(string)) ELSE string

\* re.sub(r'[ \t]+', ' ', result), line 359.
RECURSIVE sub_spaces(_)
sub_spaces(string) ==
    IF string = <<>> THEN <<>>
    ELSE IF Head(string) \in {32, 9}
         THEN IF Len(string) > 1 /\ string[2] \in {32, 9}
              THEN sub_spaces(Tail(string))
              ELSE <<32>> \o sub_spaces(Tail(string))
         ELSE <<Head(string)>> \o sub_spaces(Tail(string))

RemoveSymbols(string) ==
    LET translated == enclosed_characters_translate(string)                    \* 189
        marks1 == sub_bracketed(translated, 1, 40, pattern1_alternatives, 41,
                                TRUE, <<32>>)                                  \* 200
        marks2 == sub_bracketed(marks1, 1, 91, mark, 93, TRUE, <<32>>)         \* 201
        marks3 == sub_bracketed(marks2, 1, 12304, mark, 12305, TRUE, <<32>>)   \* 202
        stripped == strip(marks3)                                              \* 205
        anime1 == sub_prefix(stripped, <<12450, 12491, 12513, 32>>)            \* 249
        anime2 == sub_prefix(anime1, <<12450, 12491, 12513, 12539>>)           \* 250
        frames == sub_bracketed(anime2, 1, 12304, anime_frame_alternatives, 12305,
                                FALSE, <<>>)                                   \* 351
        dot == sub_prefix(frames, <<12539>>)                                   \* 353
    IN  sub_spaces(strip(dot))                                                 \* 356, 359

MaxPieces == 4         \* the pieces a string given to RemoveSymbols is made of

\* a-ni-me, the space, the middle dot, "X", "[", "]", ji, the lenticular
\* brackets, squared ji.
RemovePieces ==
    {<<12450, 12491, 12513>>, <<32>>, <<12539>>, <<88>>, <<91>>, <<93>>, <<23383>>,
     <<12304>>, <<12305>>, <<127505>>}

RECURSIVE Concat(_)
Concat(pieces) == IF pieces = <<>> THEN <<>> ELSE Head(pieces) \o Concat(Tail(pieces))

\* The strings of one enclosed character, one for every key of the table.
EnclosedCharacterStrings ==
    {<<enclosed_characters_table[n][1]>> : n \in 1..Len(enclosed_characters_table)}

RemoveInit ==
    /\ rs_string \in {Concat(pieces) : pieces \in SeqsUpTo(RemovePieces, MaxPieces)}
                     \cup EnclosedCharacterStrings
    /\ rs_first = <<>>
    /\ rs_result = <<>>
    /\ rs_calls = 0

RemoveIdle ==
    /\ rs_string = <<>>
    /\ rs_first = <<>>
    /\ rs_result = <<>>
    /\ rs_calls = 0

\* RemoveSymbols called on the string, then on what that call returned.
RemoveSymbolsCall ==
    /\ rs_calls < 2
    /\ LET result == RemoveSymbols(IF rs_calls = 0 THEN rs_string ELSE rs_result) IN
       /\ rs_result' = result
       /\ rs_first' = IF rs_calls = 0 THEN result ELSE rs_first
    /\ rs_calls' = rs_calls + 1
    /\ UNCHANGED rs_string

ClassifyInit ==
    /\ cl_network_id \in NetworkIds
    /\ cl_service_id \in ServiceIds
    /\ cl_category = "pending"

ClassifyIdle ==
    /\ cl_network_id = 0
    /\ cl_service_id = 0
    /\ cl_category = "pending"

ClassifyRecord ==
    /\ cl_category = "pending"
    /\ cl_category' = Category(cl_network_id, cl_service_id)
    /\ UNCHANGED <<cl_network_id, cl_service_id>>

(***************************************************************************)
(* The genre-floor variant of the subset generator                         *)
(* (GenerateEPGDatasetSubset.py, main): the read loop, the initial draw    *)
(* with random.sample, the genre counts, the minimum-representation        *)
(* correction pass, the sort and the write.  is_terrestrial, is_free_bs    *)
(* and is_paid_bs_cs of this file (lines 30-37) are the ones above.        *)
(***************************************************************************)

\* meets_condition of GenerateEPGDatasetSubset.py (lines 39-53).
variant_meets_condition(data) ==
    IF data.major_genre_id = 2 /\ data.middle_genre_id = 4 THEN FALSE
    ELSE IF data.major_genre_id >= 12 THEN FALSE
    ELSE IF data.major_genre_id = -1 \/ data.middle_genre_id = -1 THEN FALSE
    ELSE IF data.title = <<>> THEN FALSE
    ELSE TRUE

\* Lines 88-106: the whole read loop.  A line that fails meets_condition or
\* whose (title, description) was seen is skipped; the others go to the pool
\* of the first branch of the if/elif chain that is taken, or to none.
RECURSIVE variant_read(_, _, _)
variant_read(reader, unique_titles, pools) ==
    IF reader = <<>> THEN pools
    ELSE LET data == Head(reader)
             title_desc_key == <<data.title, data.description>>
         IN  IF ~variant_meets_condition(data) THEN
                 variant_read(Tail(reader), unique_titles, pools)
             ELSE IF title_desc_key \in unique_titles THEN
                 variant_read(Tail(reader), unique_titles, pools)
             ELSE variant_read(Tail(reader), unique_titles \cup {title_desc_key},
                    IF is_terrestrial(data.network_id) THEN
                        [pools EXCEPT !.terrestrial_data = Append(@, data)]
                    ELSE IF is_free_bs(data.network_id, data.service_id) THEN
                        [pools EXCEPT !.free_bs_data = Append(@, data)]
                    ELSE IF is_paid_bs_cs(data.network_id, data.service_id) THEN
                        [pools EXCEPT !.paid_bs_cs_data = Append(@, data)]
                    ELSE pools)

\* int(subset_size * 0.6), int(subset_size * 0.3), int(subset_size * 0.1)
\* (lines 115-117) for subset_size >= 0, the proportion given in tenths.  The
\* float product of an integer in 0..199 with 0.6, 0.3 or 0.1 truncates to
\* the same integer as the exact product.
initial_size(subset_size, tenths) == (subset_size * tenths) \div 10

\* int(subset_size * 0.15) (lines 135-136) for subset_size in 0..199.
required_count(subset_size) == (subset_size * 15) \div 100

\* The (additional_drama_count, additional_anime_count, tenths), both counts
\* in -12..12, for which the float sum a * p + b * p lies just on the zero
\* side of an integer that the exact sum reaches, so that int() gives one
\* less in magnitude.
float_sum_short ==
    { 
      <<-12, 2, 6>>, <<-12, 7, 6>>, <<-9, -1, 6>>, <<-9, 4, 6>>,
      <<-7, 12, 6>>, <<-6, 1, 6>>, <<-4, 9, 6>>, <<-2, 12, 6>>,
      <<-1, -9, 6>>, <<-1, 6, 6>>, <<1, -6, 6>>, <<1, 9, 6>>,
      <<2, -12, 6>>, <<4, -9, 6>>, <<6, -1, 6>>, <<7, -12, 6>>,
      <<9, -4, 6>>, <<9, 1, 6>>, <<12, -7, 6>>, <<12, -2, 6>>,
      <<-12, 2, 3>>, <<-9, -1, 3>>, <<-2, 12, 3>>, <<-1, -9, 3>>,
      <<1, 9, 3>>, <<2, -12, 3>>, <<9, 1, 3>>, <<12, -2, 3>> }

\* int(additional_drama_count * p + additional_anime_count * p) of lines
\* 148-150, p given in tenths: int() truncates toward zero, and the float sum
\* is the one Python computes for counts in -12..12.
additional_size(additional_drama_count, additional_anime_count, tenths) ==
    LET sum == (additional_drama_count + additional_anime_count) * tenths
        exact == IF sum >= 0 THEN sum \div 10 ELSE 0 - ((0 - sum) \div 10)
    IN  IF <<additional_drama_count, additional_anime_count, tenths>> \in float_sum_short
        THEN (IF exact > 0 THEN exact - 1 ELSE exact + 1)
        ELSE exact

\* The filter of lines 144-146: domestic drama (3, 0) or domestic anime (7, 0).
is_drama_or_anime(data) ==
    \/ data.major_genre_id = 3 /\ data.middle_genre_id = 0
    \/ data.major_genre_id = 7 /\ data.middle_genre_id = 0

\* [data for data in data_list if <the filter>].
RECURSIVE additional_data(_)
additional_data(data_list) ==
    IF data_list = <<>> THEN <<>>
    ELSE IF is_drama_or_anime(Head(data_list))
         THEN <<Head(data_list)>> \o additional_data(Tail(data_list))
         ELSE additional_data(Tail(data_list))

\* middle_genre_counts[(major, middle)] of lines 124-126.
genre_count(subsets, major, middle) ==
    Cardinality({ i \in DOMAIN subsets :
                    subsets[i].major_genre_id = major /\ subsets[i].middle_genre_id = middle })

\* random.sample(population, k) raises ValueError ("Sample larger than
\* population or is negative") for these k.
random_sample_raises(population, k) == k < 0 \/ k > Len(population)

\* The positions of S in ascending order.
RECURSIVE Ascending(_)
Ascending(S) ==
    IF S = {} THEN <<>>
    ELSE LET least == CHOOSE n \in S : \A m \in S : n <= m
         IN  <<least>> \o Ascending(S \ {least})

\* A sampling that returns the whole population whatever k is.
random_sample_WholePopulation(population, k) == {population}

\* The return values of random.sample(population, k), 0 <= k <= len: the items
\* at k different positions of the population.  random.sample returns them in
\* the order it selected them; here they are kept in the order of the
\* population, one list for every set of k positions, because main never
\* looks at the order of subsets before it sorts the list by id: it counts
\* genres over it, takes its length, samples positions of it again and
\* sorts it, and two records with the same id are the same record.
random_sample(population, k) ==
    { Picked(population, Ascending(positions)) :
        positions \in { S \in SUBSET (1..Len(population)) : Cardinality(S) = k } }

\* ---- the inputs: the dataset file and the options
MaxVariantRecords == 4

\* The subset_size option (line 77): 0, the smallest size with a floor of 1
\* (targets 4, 2, 0), the smallest positive size whose three targets add up
\* to the size itself (6, 3, 1, floor 1) and the smallest size with a floor
\* of 2 (targets 8, 4, 1).
VariantSubsetSizes == {0, 7, 10, 14}

\* The id of the n-th line of the dataset: the dataset generator writes the
\* file sorted by id, every id once.
VariantIdOf(n) == <<DigitChars[(n \div 10) + 1], DigitChars[(n % 10) + 1]>>

\* (network_id, service_id) of a terrestrial, a free BS and a paid BS service.
VariantChannels == {<<32736, 1024>>, <<4, 101>>, <<4, 200>>}

\* Domestic drama, domestic anime and news.
VariantGenres == {<<3, 0>>, <<7, 0>>, <<0, 0>>}

VariantRecord(n, title, channel, genre) ==
    [id |-> VariantIdOf(n), title |-> title, description |-> <<"d">>,
     network_id |-> channel[1], service_id |-> channel[2],
     major_genre_id |-> genre[1], middle_genre_id |-> genre[2]]

\* What a line can be: a record with a title of its own on one of the
\* channels and of one of the genres, or a record without title.
VariantKinds ==
    (VariantChannels \X VariantGenres \X {"titled"})
    \cup {<<<<32736, 1024>>, <<0, 0>>, "untitled">>}

VariantLine(n, kind) ==
    VariantRecord(n, IF kind[3] = "titled" THEN <<"t">> \o VariantIdOf(n) ELSE <<>>,
                  kind[1], kind[2])

\* The short datasets: every line of every kind.
VariantShortDatasets ==
    { [n \in 1..MaxVariantRecords |-> VariantLine(n, kinds[n])] :
        kinds \in [1..MaxVariantRecords -> VariantKinds] }

\* The channels of the lines of a long dataset: seven terrestrial, three free
\* BS and one paid BS record, enough for every target of subset_size 10
\* and one record more.
VariantLongChannels ==
    << <<32736, 1024>>, <<32736, 1024>>, <<32736, 1024>>, <<32736, 1024>>,
       <<32736, 1024>>, <<32736, 1024>>, <<32736, 1024>>,
       <<4, 101>>, <<4, 101>>, <<4, 101>>, <<4, 200>> >>

\* The long datasets: news everywhere but for the terrestrial lines that are
\* domestic drama, any set of them.
VariantLongDatasets ==
    { [n \in 1..Len(VariantLongChannels) |->
          VariantRecord(n, <<"t">> \o VariantIdOf(n), VariantLongChannels[n],
                        IF n \in dramas THEN <<3, 0>> ELSE <<0, 0>>)] :
        dramas \in SUBSET { n \in 1..Len(VariantLongChannels) :
                              is_terrestrial(VariantLongChannels[n][1]) } }

VariantDatasets == VariantShortDatasets \cup VariantLongDatasets

NoPools == [terrestrial_data |-> <<>>, free_bs_data |-> <<>>, paid_bs_cs_data |-> <<>>]

VariantInit ==
    /\ gf_pc = "start"
    /\ gf_subset_size \in VariantSubsetSizes
    /\ gf_path_exists \in BOOLEAN
    /\ gf_dataset \in VariantDatasets
    /\ gf_pools = NoPools
    /\ gf_initial = <<>>
    /\ gf_drama_count = 0
    /\ gf_anime_count = 0
    /\ gf_added = <<>>
    /\ gf_subsets = <<>>
    /\ gf_raised = "none"
    /\ gf_subset_file = (IF gf_path_exists THEN <<VariantRecord(1, <<"t">>, <<4, 101>>, <<0, 0>>)>>
                         ELSE <<>>)

VariantIdle ==
    /\ gf_pc = "idle"
    /\ gf_subset_size = 0
    /\ gf_path_exists = FALSE
    /\ gf_dataset = <<>>
    /\ gf_pools = NoPools
    /\ gf_initial = <<>>
    /\ gf_drama_count = 0
    /\ gf_anime_count = 0
    /\ gf_added = <<>>
    /\ gf_subsets = <<>>
    /\ gf_raised = "none"
    /\ gf_subset_file = <<>>

\* Lines 78-80: the subset file exists, the run returns.
VariantExists ==
    /\ gf_pc = "start"
    /\ gf_path_exists
    /\ gf_pc' = "exists"
    /\ UNCHANGED <<gf_subset_size, gf_path_exists, gf_dataset, gf_pools, gf_initial,
                   gf_drama_count, gf_anime_count, gf_added, gf_subsets, gf_raised,
                   gf_subset_file>>

\* Lines 82-109: the read loop.  weighted_data of lines 111-112 is never read.
VariantRead ==
    /\ gf_pc = "start"
    /\ ~gf_path_exists
    /\ gf_pools' = variant_read(gf_dataset, {}, NoPools)
    /\ gf_pc' = "read"
    /\ UNCHANGED <<gf_subset_size, gf_path_exists, gf_dataset, gf_initial,
                   gf_drama_count, gf_anime_count, gf_added, gf_subsets, gf_raised,
                   gf_subset_file>>

\* Lines 114-121: the initial draw of the three categories.
VariantSample ==
    /\ gf_pc = "read"
    /\ LET initial_terrestrial_count ==
               Min(Len(gf_pools.terrestrial_data), initial_size(gf_subset_size, 6))
           initial_free_bs_count ==
               Min(Len(gf_pools.free_bs_data), initial_size(gf_subset_size, 3))
           initial_paid_bs_cs_count ==
               Min(Len(gf_pools.paid_bs_cs_data), initial_size(gf_subset_size, 1))
       IN  \E t \in random_sample(gf_pools.terrestrial_data, initial_terrestrial_count),
              f \in random_sample(gf_pools.free_bs_data, initial_free_bs_count),
              p \in random_sample(gf_pools.paid_bs_cs_data, initial_paid_bs_cs_count) :
               /\ gf_subsets' = t \o f \o p
               /\ gf_initial' = t \o f \o p
    /\ gf_pc' = "sampled"
    /\ UNCHANGED <<gf_subset_size, gf_path_exists, gf_dataset, gf_pools,
                   gf_drama_count, gf_anime_count, gf_added, gf_raised, gf_subset_file>>

\* Lines 123-136: the genre counts and the two percentages printed, which
\* divide by total_count: ZeroDivisionError when the initial draw is empty.
VariantCount ==
    /\ gf_pc = "sampled"
    /\ gf_drama_count' = genre_count(gf_subsets, 3, 0)
    /\ gf_anime_count' = genre_count(gf_subsets, 7, 0)
    /\ IF Len(gf_subsets) = 0
       THEN gf_pc' = "error" /\ gf_raised' = "ZeroDivisionError"
       ELSE gf_pc' = "counted" /\ gf_raised' = gf_raised
    /\ UNCHANGED <<gf_subset_size, gf_path_exists, gf_dataset, gf_pools, gf_initial,
                   gf_added, gf_subsets, gf_subset_file>>

\* Lines 138-154: the correction pass.  The three extend calls run in order,
\* and a random.sample that raises ends the run with what was appended
\* before it; then the downsampling of lines 153-154.
VariantCorrect ==
    /\ gf_pc = "counted"
    /\ LET required_drama_count == required_count(gf_subset_size)
           required_anime_count == required_count(gf_subset_size)
       IN
       IF ~(gf_drama_count < required_drama_count \/ gf_anime_count < required_anime_count)
       THEN /\ gf_pc' = "corrected"
            /\ UNCHANGED <<gf_added, gf_subsets, gf_raised>>
       ELSE
       LET additional_drama_count == required_drama_count - gf_drama_count
           additional_anime_count == required_anime_count - gf_anime_count
           additional_terrestrial_data == additional_data(gf_pools.terrestrial_data)
           additional_free_bs_data == additional_data(gf_pools.free_bs_data)
           additional_paid_bs_cs_data == additional_data(gf_pools.paid_bs_cs_data)
           kt == Min(Len(additional_terrestrial_data),
                     additional_size(additional_drama_count, additional_anime_count, 6))
           kf == Min(Len(additional_free_bs_data),
                     additional_size(additional_drama_count, additional_anime_count, 3))
           kp == Min(Len(additional_paid_bs_cs_data),
                     additional_size(additional_drama_count, additional_anime_count, 1))
       IN
       IF random_sample_raises(additional_terrestrial_data, kt)
       THEN /\ gf_pc' = "error"
            /\ gf_raised' = "ValueError"
            /\ UNCHANGED <<gf_added, gf_subsets>>
       ELSE \E t \in random_sample(additional_terrestrial_data, kt) :
            IF random_sample_raises(additional_free_bs_data, kf)
            THEN /\ gf_pc' = "error"
                 /\ gf_raised' = "ValueError"
                 /\ gf_added' = t
                 /\ gf_subsets' = gf_subsets \o t
            ELSE \E f \in random_sample(additional_free_bs_data, kf) :
                 IF random_sample_raises(additional_paid_bs_cs_data, kp)
                 THEN /\ gf_pc' = "error"
                      /\ gf_raised' = "ValueError"
                      /\ gf_added' = t \o f
                      /\ gf_subsets' = gf_subsets \o t \o f
                 ELSE \E p \in random_sample(additional_paid_bs_cs_data, kp) :
                      /\ gf_pc' = "corrected"
                      /\ gf_raised' = gf_raised
                      /\ gf_added' = t \o f \o p
                      /\ IF Len(gf_subsets \o t \o f \o p) > gf_subset_size
                         THEN gf_subsets' \in random_sample(gf_subsets \o t \o f \o p,
                                                            gf_subset_size)
                         ELSE gf_subsets' = gf_subsets \o t \o f \o p
    /\ UNCHANGED <<gf_subset_size, gf_path_exists, gf_dataset, gf_pools, gf_initial,
                   gf_drama_count, gf_anime_count, gf_subset_file>>

\* Lines 156-206: the sort by id, the statistics (total_count is not 0
\* here) and the write of every record, all fields.
VariantFinish ==
    /\ gf_pc = "corrected"
    /\ gf_subsets' = SortById(gf_subsets)
    /\ gf_subset_file' = SortById(gf_subsets)
    /\ gf_pc' = "done"
    /\ UNCHANGED <<gf_subset_size, gf_path_exists, gf_dataset, gf_pools, gf_initial,
                   gf_drama_count, gf_anime_count, gf_added, gf_raised>>

(***************************************************************************)
(* The fetch windows of the dataset generator (01-GenerateEPGDataset.py,   *)
(* main, lines 45-189) with times to the half minute, counted from         *)
(* 2023-01-01 00:00:00: start_date and end_date need not be whole minutes, *)
(* and the client returns, as lines 84-88 say of its two time arguments,   *)
(* the events of the guide whose start time is at or after the first and   *)
(* before the second.  Every event is a well-formed event of a digital TV  *)
(* service on an included network.                                         *)
(***************************************************************************)
HalfMinutesOfWeek == Week * 24 * 60 * 2

\* The datetime of a time within January 2023.
DatetimeOfHalfMinutes(t) ==
    [year |-> 2023, month |-> 1, day |-> 1 + (t \div 2880),
     hour |-> (t % 2880) \div 120, minute |-> (t % 120) \div 2,
     second |-> (t % 2) * 30]

\* The events the guide may hold, by start time, network and event id:
\* 01-08 00:00:00, 01-08 00:00:30, 01-07 23:59:30, 01-01 00:02:00,
\* 01-15 00:05:00 and 01-01 00:00:30.
GuideCandidates ==
    << [t |-> 20160, onid |-> 32736, eid |-> 10],
       [t |-> 20161, onid |-> 4, eid |-> 20],
       [t |-> 20159, onid |-> 32736, eid |-> 30],
       [t |-> 4, onid |-> 4, eid |-> 40],
       [t |-> 40330, onid |-> 4, eid |-> 50],
       [t |-> 1, onid |-> 32736, eid |-> 60] >>

GuideEvent(candidate) ==
    [start_time |-> DatetimeOfHalfMinutes(candidate.t), duration_sec |-> 1800,
     onid |-> candidate.onid, tsid |-> 32736, sid |-> 1024, eid |-> candidate.eid,
     event_name |-> "n1", keys |-> AllKeys]

\* The event_list the client returns for [minimum, maximum): the events of
\* the guide that start in it.
RECURSIVE EventsStartingIn(_, _, _, _)
EventsStartingIn(guide, n, minimum, maximum) ==
    IF n > Len(GuideCandidates) THEN <<>>
    ELSE (IF n \in guide /\ minimum <= GuideCandidates[n].t /\ GuideCandidates[n].t < maximum
          THEN <<GuideEvent(GuideCandidates[n])>> ELSE <<>>)
         \o EventsStartingIn(guide, n + 1, minimum, maximum)

\* What sendEnumPgArc or sendEnumPgInfoEx returns for the window: one
\* service entry with the events, or an empty list.
ClientResultFor(guide, minimum, maximum) ==
    LET event_list == EventsStartingIn(guide, 1, minimum, maximum)
    IN  IF event_list = <<>> THEN <<>>
        ELSE <<[service_type |-> 1, event_list |-> event_list]>>

\* Lines 71-73 with the end of the window not cut off at end_date.
window_end_Uncut(current_start_date, end_date) ==
    current_start_date + HalfMinutesOfWeek

\* Lines 71-73: current_end_date.
window_end(current_start_date, end_date) ==
    IF current_start_date + HalfMinutesOfWeek > end_date
    THEN end_date
    ELSE current_start_date + HalfMinutesOfWeek

\* The start_date and end_date options: the first day at 00:00:00 and
\* 00:00:30, and times around one and two weeks later.
WindowStartDates == {0, 1, 20161}
WindowEndDates == {0, 1, 20160, 20161, 20170, 40321, 40340}

WindowsInit ==
    /\ wn_pc = "start"
    /\ wn_start_date \in WindowStartDates
    /\ wn_end_date \in WindowEndDates
    /\ wn_guide \in SUBSET (1..Len(GuideCandidates))
    /\ wn_current_start_date = 0
    /\ wn_current_end_date = 0
    /\ wn_windows = <<>>
    /\ wn_service_event_info_list = <<>>
    /\ wn_unique_set = {}
    /\ wn_dataset_file = <<>>

WindowsIdle ==
    /\ wn_pc = "idle"
    /\ wn_start_date = 0
    /\ wn_end_date = 0
    /\ wn_guide = {}
    /\ wn_current_start_date = 0
    /\ wn_current_end_date = 0
    /\ wn_windows = <<>>
    /\ wn_service_event_info_list = <<>>
    /\ wn_unique_set = {}
    /\ wn_dataset_file = <<>>

\* Lines 45-69: the file is opened for writing, the loop variable is set.
WindowsOpen ==
    /\ wn_pc = "start"
    /\ wn_pc' = "while"
    /\ wn_unique_set' = {}
    /\ wn_dataset_file' = <<>>
    /\ wn_current_start_date' = wn_start_date
    /\ UNCHANGED <<wn_start_date, wn_end_date, wn_guide, wn_current_end_date, wn_windows,
                   wn_service_event_info_list>>

\* Lines 70-118: the window is set and fetched; the second call, made when
\* the window ends after the current time (any time may be current), is
\* given the same two times.
WindowsFetch ==
    /\ wn_pc = "while"
    /\ wn_current_start_date < wn_end_date
    /\ LET current_end_date == window_end(wn_current_start_date, wn_end_date)
           result == ClientResultFor(wn_guide, wn_current_start_date, current_end_date)
       IN  /\ wn_current_end_date' = current_end_date
           /\ wn_windows' = Append(wn_windows, <<wn_current_start_date, current_end_date>>)
           /\ \E in_future \in BOOLEAN :
                 wn_service_event_info_list' = result \o (IF in_future THEN result ELSE <<>>)
    /\ wn_pc' = "process"
    /\ UNCHANGED <<wn_start_date, wn_end_date, wn_guide, wn_current_start_date,
                   wn_unique_set, wn_dataset_file>>

\* Lines 120-189: the events of the window are formatted, sorted by id and
\* written, and the next window starts where this one ended.
WindowsProcess ==
    /\ wn_pc = "process"
    /\ LET formatted == format_events(NestedLoopOrder(wn_service_event_info_list),
                                      DEFAULT_INCLUDE_NETWORK_IDS, wn_unique_set, <<>>, {})
       IN  /\ wn_unique_set' = formatted.unique_set
           /\ wn_dataset_file' = wn_dataset_file \o SortById(formatted.dataset_list)
    /\ wn_current_start_date' = wn_current_end_date
    /\ wn_service_event_info_list' = <<>>
    /\ wn_pc' = "while"
    /\ UNCHANGED <<wn_start_date, wn_end_date, wn_guide, wn_current_end_date, wn_windows>>

\* Line 70 is false: the with block ends, the file is closed.
WindowsDone ==
    /\ wn_pc = "while"
    /\ ~(wn_current_start_date < wn_end_date)
    /\ wn_pc' = "done"
    /\ UNCHANGED <<wn_start_date, wn_end_date, wn_guide, wn_current_start_date,
                   wn_current_end_date, wn_windows, wn_service_event_info_list,
                   wn_unique_set, wn_dataset_file>>

(***************************************************************************)
(* The annotation tool (03-AnnotateEPGDatasetSubset.py): main loads the    *)
(* subset file and serves one page; every browser session that opens the   *)
(* page has its own boxes, and a click on the confirm button calls OnClick *)
(* with the values of the boxes of that session and puts what it returns   *)
(* into them.  current_index and subsets belong to main and are shared by  *)
(* all sessions.  The handler returns components as updates, so the        *)
(* library is one whose queue runs the calls of one event listener one     *)
(* after the other: a call of OnClick is one step.                         *)
(***************************************************************************)
MaxSubsets == 2        \* lines of the subset file

\* The browser sessions.
Sessions == {1, 2}

\* The value of id_box when the page is loaded (line 126) and the one
\* returned when no record is left (line 101).
InitialId == "press confirm to start"
CompletedId == "all annotations completed"

\* The value of a box of a session that has not opened the page.
NoPage == ""

AnnotateIdOf(n) == <<"a", "b", "c">>[n]

\* The subset files: records as the subset generator writes them, with the
\* defaults of EPGDatasetSubset in the annotation fields.
AnnotateFiles ==
    { [n \in 1..len |-> [id |-> AnnotateIdOf(n), series_title |-> <<>>,
                         episode_number |-> None, subtitle |-> None]] :
        len \in 0..MaxSubsets }

\* start_index: any int.
StartIndexes == {-3, -1, 0, 1, 2}

\* What the user has typed into series_title_box, episode_number_box and
\* subtitle_box: "S", "", " " and " S ", "1", "T ".
AnnotationInputs ==
    { [series_title |-> <<83>>, episode_number |-> <<>>, subtitle |-> <<32>>],
      [series_title |-> <<32, 83, 32>>, episode_number |-> <<49>>,
       subtitle |-> <<84, 32>>] }

\* list[index] of Python: the position in the list, 0 where it raises
\* IndexError.
ListPosition(list, index) ==
    IF 0 <= index /\ index < Len(list) THEN index + 1
    ELSE IF index < 0 /\ -Len(list) <= index THEN Len(list) + index + 1
    ELSE 0

\* Lines 71-76: the stripped value, or None where it is empty.
stripped_or_none(value) ==
    IF strip(value) = <<>> THEN None ELSE <<strip(value)>>

\* Lines 70-76.
annotated(subset, series_title, episode_number, subtitle) ==
    [subset EXCEPT !.series_title = strip(series_title),
                   !.episode_number = stripped_or_none(episode_number),
                   !.subtitle = stripped_or_none(subtitle)]

AnnotateInit ==
    /\ an_pc = "start"
    /\ an_path_exists \in BOOLEAN
    /\ an_subset_file \in (IF an_path_exists THEN AnnotateFiles ELSE {<<>>})
    /\ an_subsets = <<>>
    /\ an_current_index \in StartIndexes
    /\ an_id_box = [session \in Sessions |-> NoPage]
    /\ an_clicked = <<>>

AnnotateIdle ==
    /\ an_pc = "start"
    /\ an_path_exists = FALSE
    /\ an_subset_file = <<>>
    /\ an_subsets = <<>>
    /\ an_current_index = 0
    /\ an_id_box = [session \in Sessions |-> NoPage]
    /\ an_clicked = <<>>

\* Lines 32-34: the file does not exist, main returns.
AnnotateMissing ==
    /\ an_pc = "start"
    /\ ~an_path_exists
    /\ an_pc' = "missing"
    /\ UNCHANGED <<an_path_exists, an_subset_file, an_subsets, an_current_index,
                   an_id_box, an_clicked>>

\* Lines 38-46 and 120-155: the file is loaded into subsets, current_index
\* is start_index, and the page is served.
AnnotateLoad ==
    /\ an_pc = "start"
    /\ an_path_exists
    /\ an_subsets' = an_subset_file
    /\ an_pc' = "serving"
    /\ UNCHANGED <<an_path_exists, an_subset_file, an_current_index, an_id_box,
                   an_clicked>>

\* A session opens or reloads the page: its boxes have the values of lines
\* 126-131.
AnnotateOpenPage ==
    /\ an_pc = "serving"
    /\ \E session \in Sessions :
         /\ an_id_box[session] # InitialId
         /\ an_id_box' = [an_id_box EXCEPT ![session] = InitialId]
    /\ UNCHANGED <<an_pc, an_path_exists, an_subset_file, an_subsets,
                   an_current_index, an_clicked>>

\* OnClick without the branch of line 61: a click from the initial screen
\* is handled as any other.
OnClick_InitialScreenSaves(session, id, series_title, episode_number, subtitle) ==
    LET position == ListPosition(an_subsets, an_current_index)
        saves == an_current_index < Len(an_subsets) /\ position # 0
        subsets == IF saves
                   THEN [an_subsets EXCEPT ![position] =
                            annotated(@, series_title, episode_number, subtitle)]
                   ELSE an_subsets
        current_index == IF saves THEN an_current_index + 1 ELSE an_current_index
        shown == ListPosition(subsets, current_index)
    IN  /\ an_subsets' = subsets
        /\ an_subset_file' = IF saves THEN subsets ELSE an_subset_file
        /\ an_current_index' = current_index
        /\ an_id_box' =
               IF current_index >= Len(subsets)
               THEN [an_id_box EXCEPT ![session] = CompletedId]
               ELSE IF shown = 0 THEN an_id_box
               ELSE [an_id_box EXCEPT ![session] = subsets[shown].id]

\* OnClick (lines 48-117), called for a click of the session.  An
\* IndexError of line 70 or 111 ends the call: nothing is returned and the
\* boxes of the session keep their values.
OnClick(session, id, series_title, episode_number, subtitle) ==
    LET position == ListPosition(an_subsets, an_current_index)
        saves == id # InitialId /\ an_current_index < Len(an_subsets)      \* 61, 67
        raises_70 == saves /\ position = 0
        subsets == IF saves /\ ~raises_70
                   THEN [an_subsets EXCEPT ![position] =
                            annotated(@, series_title, episode_number, subtitle)]
                   ELSE an_subsets
        current_index == IF saves /\ ~raises_70 THEN an_current_index + 1     \* 93
                         ELSE an_current_index
        shown == ListPosition(subsets, current_index)
    IN  /\ an_subsets' = subsets
        /\ an_subset_file' = IF saves /\ ~raises_70 THEN subsets               \* 88-90
                             ELSE an_subset_file
        /\ an_current_index' = current_index
        /\ an_id_box' =
               IF raises_70 THEN an_id_box
               ELSE IF current_index >= Len(subsets)                          \* 96
               THEN [an_id_box EXCEPT ![session] = CompletedId]
               ELSE IF shown = 0 THEN an_id_box
               ELSE [an_id_box EXCEPT ![session] = subsets[shown].id]        \* 111

\* Lines 134-152: a click on the confirm button of a session; the inputs
\* are the values of its boxes.
AnnotateClick ==
    /\ an_pc = "serving"
    /\ \E session \in Sessions, input \in AnnotationInputs :
         /\ an_id_box[session] # NoPage
         /\ an_clicked' = <<[session |-> session, id |-> an_id_box[session],
                            series_title |-> input.series_title,
                            episode_number |-> input.episode_number,
                            subtitle |-> input.subtitle]>>
         /\ OnClick(session, an_id_box[session], input.series_title,
                    input.episode_number, input.subtitle)
    /\ UNCHANGED <<an_pc, an_path_exists>>

(***************************************************************************)
(* The specifications.                                                     *)
(***************************************************************************)
Init == SubsetInit /\ ClassifyIdle /\ SampleIdle /\ IdIdle /\ DatasetIdle /\ WeightIdle /\ FormatIdle /\ RemoveIdle /\ VariantIdle /\ WindowsIdle /\ AnnotateIdle
Next ==
    \/ SubsetExists /\ UNCHANGED <<varsClassify, varsSample, varsId, varsDataset, varsWeight, varsFormat, varsRemove, varsVariant, varsWindows, varsAnnotate>>
    \/ SubsetOpen /\ UNCHANGED <<varsClassify, varsSample, varsId, varsDataset, varsWeight, varsFormat, varsRemove, varsVariant, varsWindows, varsAnnotate>>
    \/ SubsetRead /\ UNCHANGED <<varsClassify, varsSample, varsId, varsDataset, varsWeight, varsFormat, varsRemove, varsVariant, varsWindows, varsAnnotate>>
    \/ SubsetSample /\ UNCHANGED <<varsClassify, varsSample, varsId, varsDataset, varsWeight, varsFormat, varsRemove, varsVariant, varsWindows, varsAnnotate>>
    \/ SubsetFinish /\ UNCHANGED <<varsClassify, varsSample, varsId, varsDataset, varsWeight, varsFormat, varsRemove, varsVariant, varsWindows, varsAnnotate>>
Spec == Init /\ [][Next]_vars

InitClassify == ClassifyInit /\ SampleIdle /\ IdIdle /\ DatasetIdle /\ SubsetIdle /\ WeightIdle /\ FormatIdle /\ RemoveIdle /\ VariantIdle /\ WindowsIdle /\ AnnotateIdle
NextClassify == ClassifyRecord /\ UNCHANGED <<varsSample, varsId, varsDataset, varsSubset, varsWeight, varsFormat, varsRemove, varsVariant, varsWindows, varsAnnotate>>
SpecClassify == InitClassify /\ [][NextClassify]_vars

InitSample == SampleInit /\ ClassifyIdle /\ IdIdle /\ DatasetIdle /\ SubsetIdle /\ WeightIdle /\ FormatIdle /\ RemoveIdle /\ VariantIdle /\ WindowsIdle /\ AnnotateIdle
NextSample == SampleData /\ UNCHANGED <<varsClassify, varsId, varsDataset, varsSubset, varsWeight, varsFormat, varsRemove, varsVariant, varsWindows, varsAnnotate>>
SpecSample == InitSample /\ [][NextSample]_vars

InitId == IdInit /\ ClassifyIdle /\ SampleIdle /\ DatasetIdle /\ SubsetIdle /\ WeightIdle /\ FormatIdle /\ RemoveIdle /\ VariantIdle /\ WindowsIdle /\ AnnotateIdle
NextId ==
    \/ AssignIdA /\ UNCHANGED <<varsClassify, varsSample, varsDataset, varsSubset, varsWeight, varsFormat, varsRemove, varsVariant, varsWindows, varsAnnotate>>
    \/ AssignIdB /\ UNCHANGED <<varsClassify, varsSample, varsDataset, varsSubset, varsWeight, varsFormat, varsRemove, varsVariant, varsWindows, varsAnnotate>>
SpecId == InitId /\ [][NextId]_vars

InitDataset == DatasetInit /\ ClassifyIdle /\ SampleIdle /\ IdIdle /\ SubsetIdle /\ WeightIdle /\ FormatIdle /\ RemoveIdle /\ VariantIdle /\ WindowsIdle /\ AnnotateIdle
NextDataset ==
    \/ DatasetExists /\ UNCHANGED <<varsClassify, varsSample, varsId, varsSubset, varsWeight, varsFormat, varsRemove, varsVariant, varsWindows, varsAnnotate>>
    \/ DatasetOpen /\ UNCHANGED <<varsClassify, varsSample, varsId, varsSubset, varsWeight, varsFormat, varsRemove, varsVariant, varsWindows, varsAnnotate>>
    \/ DatasetFetch /\ UNCHANGED <<varsClassify, varsSample, varsId, varsSubset, varsWeight, varsFormat, varsRemove, varsVariant, varsWindows, varsAnnotate>>
    \/ DatasetProcess /\ UNCHANGED <<varsClassify, varsSample, varsId, varsSubset, varsWeight, varsFormat, varsRemove, varsVariant, varsWindows, varsAnnotate>>
    \/ DatasetDone /\ UNCHANGED <<varsClassify, varsSample, varsId, varsSubset, varsWeight, varsFormat, varsRemove, varsVariant, varsWindows, varsAnnotate>>
SpecDataset == InitDataset /\ [][NextDataset]_vars

\* One of the two generators is run.
InitGenerators ==
    /\ \/ DatasetInit /\ SubsetIdle
       \/ SubsetInit /\ DatasetIdle
    /\ ClassifyIdle /\ SampleIdle /\ IdIdle /\ WeightIdle /\ FormatIdle /\ RemoveIdle /\ VariantIdle /\ WindowsIdle /\ AnnotateIdle
NextGenerators ==
    \/ SubsetIdle /\ NextDataset
    \/ DatasetIdle /\ Next
SpecGenerators == InitGenerators /\ [][NextGenerators]_vars

InitWeight == WeightInit /\ ClassifyIdle /\ SampleIdle /\ IdIdle /\ DatasetIdle /\ SubsetIdle /\ FormatIdle /\ RemoveIdle /\ VariantIdle /\ WindowsIdle /\ AnnotateIdle
NextWeight == GetWeight /\ UNCHANGED <<varsClassify, varsSample, varsId, varsDataset, varsSubset, varsFormat, varsRemove, varsVariant, varsWindows, varsAnnotate>>
SpecWeight == InitWeight /\ [][NextWeight]_vars

InitFormat == FormatInit /\ ClassifyIdle /\ SampleIdle /\ IdIdle /\ DatasetIdle /\ SubsetIdle /\ WeightIdle /\ RemoveIdle /\ VariantIdle /\ WindowsIdle /\ AnnotateIdle
NextFormat == FormatStringCall /\ UNCHANGED <<varsClassify, varsSample, varsId, varsDataset, varsSubset, varsWeight, varsRemove, varsVariant, varsWindows, varsAnnotate>>
SpecFormat == InitFormat /\ [][NextFormat]_vars

InitRemove == RemoveInit /\ ClassifyIdle /\ SampleIdle /\ IdIdle /\ DatasetIdle /\ SubsetIdle /\ WeightIdle /\ FormatIdle /\ VariantIdle /\ WindowsIdle /\ AnnotateIdle
NextRemove == RemoveSymbolsCall /\ UNCHANGED <<varsClassify, varsSample, varsId, varsDataset, varsSubset, varsWeight, varsFormat, varsVariant, varsWindows, varsAnnotate>>
SpecRemove == InitRemove /\ [][NextRemove]_vars

InitVariant == VariantInit /\ ClassifyIdle /\ SampleIdle /\ IdIdle /\ DatasetIdle /\ SubsetIdle /\ WeightIdle /\ FormatIdle /\ RemoveIdle /\ WindowsIdle /\ AnnotateIdle
NextVariant ==
    /\ \/ VariantExists
       \/ VariantRead
       \/ VariantSample
       \/ VariantCount
       \/ VariantCorrect
       \/ VariantFinish
    /\ UNCHANGED <<varsClassify, varsSample, varsId, varsDataset, varsSubset, varsWeight, varsFormat, varsRemove, varsWindows, varsAnnotate>>
SpecVariant == InitVariant /\ [][NextVariant]_vars

InitWindows == WindowsInit /\ ClassifyIdle /\ SampleIdle /\ IdIdle /\ DatasetIdle /\ SubsetIdle /\ WeightIdle /\ FormatIdle /\ RemoveIdle /\ VariantIdle /\ AnnotateIdle
NextWindows ==
    /\ \/ WindowsOpen
       \/ WindowsFetch
       \/ WindowsProcess
       \/ WindowsDone
    /\ UNCHANGED <<varsClassify, varsSample, varsId, varsDataset, varsSubset, varsWeight, varsFormat, varsRemove, varsVariant, varsAnnotate>>
SpecWindows == InitWindows /\ [][NextWindows]_vars

InitAnnotate == AnnotateInit /\ ClassifyIdle /\ SampleIdle /\ IdIdle /\ DatasetIdle /\ SubsetIdle /\ WeightIdle /\ FormatIdle /\ RemoveIdle /\ VariantIdle /\ WindowsIdle
NextAnnotate ==
    /\ \/ AnnotateMissing
       \/ AnnotateLoad
       \/ AnnotateOpenPage
       \/ AnnotateClick
    /\ UNCHANGED <<varsClassify, varsSample, varsId, varsDataset, varsSubset, varsWeight, varsFormat, varsRemove, varsVariant, varsWindows>>
SpecAnnotate == InitAnnotate /\ [][NextAnnotate]_vars

\* The statements of main run one after the other until it returns: as long
\* as main has not returned, a step that moves it to its next place is taken.
\* Every step of NextWindows moves wn_pc, and one is possible at "start"
\* (WindowsOpen), at "while" (WindowsFetch or WindowsDone, by the test of
\* line 70) and at "process" (WindowsProcess).
WindowsStep ==
    /\ wn_pc \in {"start", "while", "process"}
    /\ wn_pc' \in {"while", "process", "done"}
    /\ wn_pc' # wn_pc
SpecWindowsFair == InitWindows /\ [][NextWindows]_vars /\ WF_wn_pc(WindowsStep)

(***************************************************************************)
(* C7: for every (network_id, service_id), exactly one of Terrestrial,     *)
(* FreeSatellite, PaidSatelliteOrCable, Unclassified holds: the pool the   *)
(* if/elif chain picks is the pool of the one predicate that is true, and  *)
(* it is "unclassified" exactly when none is, so the order of the chain    *)
(* never decides.                                                          *)
(***************************************************************************)
C7_ExactlyOneCategory ==
    cl_category # "pending" =>
        /\ (cl_category = "terrestrial") <=> is_terrestrial(cl_network_id)
        /\ (cl_category = "free_bs") <=> is_free_bs(cl_network_id, cl_service_id)
        /\ (cl_category = "paid_bs_cs") <=> is_paid_bs_cs(cl_network_id, cl_service_id)
        /\ (cl_category = "unclassified") <=>
              ~(is_terrestrial(cl_network_id)
                \/ is_free_bs(cl_network_id, cl_service_id)
                \/ is_paid_bs_cs(cl_network_id, cl_service_id))

\* A BS service inside a reserved (paid) range has been classified.
C7_Witness ==
    /\ cl_category = "paid_bs_cs"
    /\ cl_network_id = 4
    /\ cl_service_id = 234

(***************************************************************************)
(* C3 as stated: sample_data(pool, k) returns exactly min(k, len(pool))    *)
(* items whenever every weight is non-negative and not all are zero.       *)
(***************************************************************************)
PositiveCount(weights) == Cardinality({i \in 1..Len(weights) : weights[i] > 0})

TruncateToMinute(t) == [t EXCEPT !.second = 0]

IdentityFields(e) == <<TruncateToMinute(e.start_time), e.onid, e.sid, e.eid>>

ExampleStart == [year |-> 2021, month |-> 10, day |-> 23, hour |-> 1, minute |-> 53]

ExampleId ==
    <<"2", "0", "2", "1", "1", "0", "2", "3", "0", "1", "5", "3",
      "-", "N", "I", "D", "3", "2", "7", "4", "2",
      "-", "S", "I", "D", "0", "1", "0", "7", "2",
      "-", "E", "I", "D", "2", "7", "7", "3", "0">>

IsExample(e) ==
    /\ [f \in DOMAIN ExampleStart |-> e.start_time[f]] = ExampleStart
    /\ e.onid = 32742 /\ e.sid = 1072 /\ e.eid = 27730

C9_IdOfIdentityFields ==
    /\ (id_epg_id_a # <<>> /\ id_epg_id_b # <<>>
        /\ IdentityFields(id_event_a) = IdentityFields(id_event_b))
           => id_epg_id_a = id_epg_id_b
    /\ (id_epg_id_a # <<>> /\ IsExample(id_event_a)) => id_epg_id_a = ExampleId
    /\ (id_epg_id_b # <<>> /\ IsExample(id_event_b)) => id_epg_id_b = ExampleId

\* Both events have their id, b first or a first; they agree on the four
\* identity fields and differ in seconds, transport stream and name; a is
\* the example.
C9_Witness ==
    /\ id_epg_id_a = ExampleId
    /\ id_epg_id_b = ExampleId
    /\ id_event_a.start_time.second # id_event_b.start_time.second
    /\ id_event_a.tsid # id_event_b.tsid
    /\ id_event_a.event_name # id_event_b.event_name

(***************************************************************************)
(* C8: no two records written to the dataset file during one run share an  *)
(* id, also when they arrive in different fetch windows: a record whose id *)
(* was seen earlier in the run is dropped.                                 *)
(***************************************************************************)
C8_UniqueIdsInFile ==
    \A i, j \in DOMAIN ds_dataset_file :
        i # j => ds_dataset_file[i].id # ds_dataset_file[j].id

\* An id was written in the first window and an event with the same id was
\* dropped in a later window; the file holds it once.
C8_Witness ==
    \E added, skipped \in ds_log :
        /\ added.line = "Add" /\ skipped.line = "Skip"
        /\ added.id = skipped.id
        /\ added.window = ds_start_date
        /\ skipped.window > ds_start_date
        /\ Cardinality({i \in DOMAIN ds_dataset_file : ds_dataset_file[i].id = added.id}) = 1

(***************************************************************************)
(* C5 as stated: an event record that lacks start_time or duration_sec is  *)
(* skipped for that record only: the run does not abort, and the other     *)
(* usable records of its window are written.                               *)
(***************************************************************************)
HasMalformed(service_event_info_list) ==
    \E e \in Range(NestedLoopOrder(service_event_info_list)) : Malformed(e.event_info)

UsableIds(service_event_info_list) ==
    {epg_id(e.event_info) :
        e \in {x \in Range(NestedLoopOrder(service_event_info_list)) :
                 /\ ~Malformed(x.event_info)
                 /\ ~Unusable(x.service_type, x.event_info, DEFAULT_INCLUDE_NETWORK_IDS)}}

FileIds == {ds_dataset_file[i].id : i \in DOMAIN ds_dataset_file}

SubsetEnded == sg_pc \in {"done", "error"}

SubsetSampled == sg_pc \in {"sampled", "done", "error"}

\* The records that passed the filters and the duplicate check and fell
\* into one of the three category lists.
Available ==
    Len(sg_terrestrial_data) + Len(sg_free_bs_data) + Len(sg_paid_bs_cs_data)

SampledCount == Len(sg_sampled[1]) + Len(sg_sampled[2]) + Len(sg_sampled[3])

\* C1: the subset that is written contains no two records with the same id,
\* for any input, including one where several records carry the same id
\* with different titles or descriptions.
C1_Original ==
    sg_pc = "done" =>
        \A i, j \in 1..Len(sg_subset_file) :
            i < j => sg_subset_file[i].id # sg_subset_file[j].id

\* C2: no two records of the written subset share the same
\* (title, description) pair, whatever the input order and the draws.
C2_UniqueTextsInFile ==
    \A i, j \in 1..Len(sg_subset_file) :
        i < j => <<sg_subset_file[i].title, sg_subset_file[i].description>>
                 # <<sg_subset_file[j].title, sg_subset_file[j].description>>

\* A run that printed 'Skipping (duplicate)' for a line of the input and
\* wrote two records.
C2_Witness ==
    /\ sg_pc = "done"
    /\ sg_skipped["duplicate"] >= 1
    /\ Len(sg_subset_file) >= 2

\* C4: a run never fails because a candidate list or the sampled subset is
\* empty: it ends without an uncaught exception and writes its file.
C4_Original == sg_pc # "error"

\* C6 as stated: when subset_size exceeds the number of available records,
\* the written subset holds all of them.
C6_Original ==
    (sg_pc = "done" /\ sg_subset_size > Available) =>
        Len(sg_subset_file) = Available

\* C6, corrected: each category contributes the smaller of the size of its
\* list and floor(subset_size * proportion), also when subset_size exceeds
\* the number of available records; the sampled subset therefore never
\* exceeds the available records and may hold fewer, and the written file
\* holds at most the sampled subset.
C6_SampledSize ==
    SubsetSampled =>
        /\ Len(sg_sampled[1]) = Min(Len(sg_terrestrial_data), (sg_subset_size * 65) \div 100)
        /\ Len(sg_sampled[2]) = Min(Len(sg_free_bs_data), (sg_subset_size * 25) \div 100)
        /\ Len(sg_sampled[3]) = Min(Len(sg_paid_bs_cs_data), (sg_subset_size * 10) \div 100)
        /\ SampledCount <= Available
        /\ Len(sg_subset_file) <= SampledCount

\* subset_size exceeds the available records and the file that was written
\* holds fewer of them than there are.
C6_Witness ==
    /\ sg_pc = "done"
    /\ sg_subset_size > Available
    /\ Len(sg_subset_file) < Available
    /\ Len(sg_subset_file) = SampledCount

\* C10: the three per-category sample outputs are pairwise disjoint and
\* their union has at most floor(subset_size * 0.65) +
\* floor(subset_size * 0.25) + floor(subset_size * 0.10) records, hence at
\* most subset_size.
C10_DisjointWithinTargets ==
    SubsetSampled =>
        LET terrestrial == Range(sg_sampled[1])
            free_bs == Range(sg_sampled[2])
            paid_bs_cs == Range(sg_sampled[3])
            targets == (sg_subset_size * 65) \div 100 + (sg_subset_size * 25) \div 100
                       + (sg_subset_size * 10) \div 100
        IN  /\ terrestrial \cap free_bs = {}
            /\ terrestrial \cap paid_bs_cs = {}
            /\ free_bs \cap paid_bs_cs = {}
            /\ Cardinality(terrestrial \cup free_bs \cup paid_bs_cs) <= targets
            /\ SampledCount <= targets
            /\ targets <= sg_subset_size

\* All three categories contributed to the sample.
C10_Witness ==
    /\ sg_pc = "sampled"
    /\ sg_sampled[1] # <<>>
    /\ sg_sampled[2] # <<>>
    /\ sg_sampled[3] # <<>>

\* C11: the records written by the subset generator are in non-decreasing
\* order of id, also after the duplicate-id pass that runs between the sort
\* and the write.
C11_FileSortedById ==
    sg_pc = "done" =>
        \A i, j \in 1..Len(sg_subset_file) :
            i < j => ~StrLess(sg_subset_file[j].id, sg_subset_file[i].id)

\* The sample was not in id order, the duplicate-id pass removed a record,
\* and the file holds records of two ids.
C11_Witness ==
    /\ sg_pc = "done"
    /\ Len(sg_subset_file) < SampledCount
    /\ \E i, j \in 1..SampledCount :
         LET sampled == sg_sampled[1] \o sg_sampled[2] \o sg_sampled[3]
         IN  i < j /\ StrLess(sampled[j].id, sampled[i].id)
    /\ \E i, j \in 1..Len(sg_subset_file) :
         StrLess(sg_subset_file[i].id, sg_subset_file[j].id)

\* C18: no record written by the subset generator is a shopping record
\* (2, 4), has major genre id >= 12, has major or middle genre id -1, or has
\* a title that is empty after stripping whitespace.
C18_FileMeetsCondition ==
    sg_pc = "done" =>
        \A i \in 1..Len(sg_subset_file) :
            LET subset == sg_subset_file[i] IN
            /\ ~(subset.major_genre_id = 2 /\ subset.middle_genre_id = 4)
            /\ subset.major_genre_id < 12
            /\ subset.major_genre_id # -1
            /\ subset.middle_genre_id # -1
            /\ str_strip(subset.title) # <<>>

\* A run that printed 'Skipping (condition not met)' for a line of the
\* input and wrote a record.
C18_Witness ==
    /\ sg_pc = "done"
    /\ sg_skipped["condition"] >= 1
    /\ Len(sg_subset_file) >= 1

(***************************************************************************)
(* Claims about both generators (SpecGenerators).                          *)
(***************************************************************************)
\* C12: if the output path already exists when the dataset generator or the
\* subset generator starts, the run ends without opening the file for
\* writing: the existing file's content is unchanged and nothing is written.
C12_ExistingFileUntouched ==
    [][ /\ (ds_pc = "start" /\ ds_path_exists) =>
              (ds_pc' = "exists" /\ ds_dataset_file' = ds_dataset_file /\ ds_log' = ds_log)
        /\ ds_pc = "exists" => UNCHANGED varsDataset
        /\ (sg_pc = "start" /\ sg_path_exists) =>
              (sg_pc' = "exists" /\ sg_subset_file' = sg_subset_file)
        /\ sg_pc = "exists" => UNCHANGED varsSubset ]_vars

\* A run of the subset generator that ended at the existence test with the
\* earlier line still in the file.
C12_Witness ==
    /\ sg_pc = "exists"
    /\ sg_path_exists
    /\ sg_subset_file # <<>>

(***************************************************************************)
(* Claims about get_weight (SpecWeight).  Weights are in units of 1/60000; *)
(* "weight = base * num / den" is written weight * den = base * num.       *)
(***************************************************************************)
Terrestrial(data) == 30848 <= data.network_id /\ data.network_id <= 32744

FreeSatellite(data) ==
    /\ data.network_id = 4
    /\ ~(191 <= data.service_id /\ data.service_id <= 209)
    /\ ~(234 <= data.service_id /\ data.service_id <= 256)

\* max(months since 2019-10, 0) / 60 + 1, in units.
BaseWeight(data) ==
    LET months == (data.start_time.year - 2019) * 12 + data.start_time.month - 10
    IN  IF months < 0 THEN 60000 ELSE 60000 + months * 1000

HourOutside(data, from, to) ==
    data.start_time.hour < from \/ data.start_time.hour > to

\* The cascade without the hours of the day, as C13 lists it: which of the
\* eleven rules a record matches.
RulesAsListed(data) ==
    LET major == data.major_genre_id
        middle == data.middle_genre_id
    IN  << major = 0 /\ middle = 0,
           major = 1 /\ Terrestrial(data),
           major = 3 /\ middle = 0 /\ Terrestrial(data),
           major = 3 /\ middle = 0 /\ ~Terrestrial(data),
           major = 3 /\ middle = 1,
           major = 5 /\ Terrestrial(data),
           major = 6 /\ (Terrestrial(data) \/ FreeSatellite(data)),
           major = 7 /\ middle = 0 /\ (Terrestrial(data) \/ FreeSatellite(data)),
           major = 8 /\ Terrestrial(data),
           major = 10,
           data.network_id = 7 /\ data.service_id = 333 /\ major = 7 >>

\* The cascade with the hours of the day: domestic drama counts only
\* outside hours 4..17, domestic anime only outside hours 4..20.
RulesWithHours(data) ==
    [n \in 1..11 |->
        /\ RulesAsListed(data)[n]
        /\ n = 3 => HourOutside(data, 4, 17)
        /\ n = 8 => HourOutside(data, 4, 20)]

\* The multiplier of each rule, as <<numerator, denominator>>; an animated
\* movie (middle genre 2) has 2.2 * 1.7.
RuleFactor(n, data) ==
    CASE n = 1 -> <<7, 10>>
      [] n = 2 -> <<15, 10>>
      [] n = 3 -> <<32, 10>>
      [] n = 4 -> <<25, 100>>
      [] n = 5 -> <<25, 100>>
      [] n = 6 -> <<11, 10>>
      [] n = 7 -> IF data.middle_genre_id = 2 THEN <<22 * 17, 100>> ELSE <<22, 10>>
      [] n = 8 -> <<22, 10>>
      [] n = 9 -> <<11, 10>>
      [] n = 10 -> <<8, 10>>
      [] n = 11 -> <<13, 10>>

\* The multiplier of the first rule that matches, <<1, 1>> when none does.
FirstMatchFactor(matches, data) ==
    IF \E n \in 1..11 : matches[n]
    THEN RuleFactor(CHOOSE n \in 1..11 : matches[n] /\ \A k \in 1..(n - 1) : ~matches[k],
                    data)
    ELSE <<1, 1>>

IsWeightOf(weight, data, factor) ==
    weight * factor[2] = BaseWeight(data) * factor[1]

\* C13 as stated: the first matching rule of the listed cascade, in which
\* terrestrial domestic drama and terrestrial or free-satellite domestic
\* anime carry no condition on the hour.
C13_Original ==
    wt_returned => IsWeightOf(wt_weight, wt_data, FirstMatchFactor(RulesAsListed(wt_data), wt_data))

\* C13, corrected: get_weight multiplies the base recency weight by the
\* factor of the first matching rule of the cascade in which domestic drama
\* on terrestrial counts only outside hours 4..17 and domestic anime on
\* terrestrial or free satellite only outside hours 4..20; a record that
\* matches no rule keeps the base weight.
C13_FirstMatchWithHours ==
    wt_returned => IsWeightOf(wt_weight, wt_data, FirstMatchFactor(RulesWithHours(wt_data), wt_data))

\* A terrestrial domestic drama at hour 10 was weighted and kept its base
\* weight.
C13_Witness ==
    /\ wt_returned
    /\ wt_data.major_genre_id = 3 /\ wt_data.middle_genre_id = 0
    /\ Terrestrial(wt_data)
    /\ wt_data.start_time.hour = 10
    /\ wt_data.start_time.year = 2024
    /\ wt_weight = BaseWeight(wt_data)

TerrestrialDomesticDrama(data) ==
    data.major_genre_id = 3 /\ data.middle_genre_id = 0 /\ Terrestrial(data)

\* The start time, as a time of day, lies outside 04:00-17:00.
OutsideFourToSeventeen(start_time) ==
    \/ start_time.hour < 4
    \/ start_time.hour > 17
    \/ start_time.hour = 17 /\ (start_time.minute > 0 \/ start_time.second > 0)

C15_WeightPositive ==
    wt_returned => wt_weight > 0

\* A record from years before the anchor month under a x0.25 rule: the
\* smallest weight there is, a quarter of 1.0.
C15_Witness ==
    /\ wt_returned
    /\ wt_data.start_time.year = 2010
    /\ wt_data.major_genre_id = 3 /\ wt_data.middle_genre_id = 1
    /\ wt_weight = 15000

(***************************************************************************)
(* Claims about FormatString (SpecFormat).                                 *)
(***************************************************************************)
\* C16: FormatString is idempotent: FormatString(FormatString(x)) =
\* FormatString(x) for every string x, including strings with carriage
\* returns, line feeds, bracket tokens and "^2" / "^3".
C16_Original ==
    fs_calls = 2 => fs_result = fs_first

(***************************************************************************)
(* Claims about RemoveSymbols (SpecRemove).                                *)
(***************************************************************************)
\* C17: RemoveSymbols is idempotent: RemoveSymbols(RemoveSymbols(x)) =
\* RemoveSymbols(x) for every string x, including strings that start with
\* several stacked prefixes or hold nested bracketed tags.
C17_Original ==
    rs_calls = 2 => rs_result = rs_first

(***************************************************************************)
(* C19 as stated: in the genre-floor variant every item the correction     *)
(* pass appends is a record that was not in the subset after the initial   *)
(* draw and is of a genre whose count was below the floor, and the subset  *)
(* the run is left with, and the file it writes, hold each record at most  *)
(* once.                                                                   *)
(***************************************************************************)
VariantPassEnded == gf_pc \in {"corrected", "done"}

Deficient(data) ==
    \/ /\ data.major_genre_id = 3 /\ data.middle_genre_id = 0
       /\ gf_drama_count < required_count(gf_subset_size)
    \/ /\ data.major_genre_id = 7 /\ data.middle_genre_id = 0
       /\ gf_anime_count < required_count(gf_subset_size)

EachOnce(list) == \A i, j \in DOMAIN list : list[i] = list[j] => i = j

C19_Original ==
    VariantPassEnded =>
        /\ \A n \in DOMAIN gf_added :
              /\ gf_added[n] \notin Range(gf_initial)
              /\ Deficient(gf_added[n])
        /\ EachOnce(gf_subsets)
        /\ EachOnce(gf_subset_file)

(***************************************************************************)
(* C20 as stated: in the genre-floor variant the correction pass never     *)
(* raises; whatever the drama count, the anime count and the pool sizes    *)
(* that trigger it, the run goes on to the sort and the write.             *)
(***************************************************************************)
C20_Original == gf_raised # "ValueError"

(***************************************************************************)
(* C21: in the genre-floor variant the subset the correction pass leaves,  *)
(* and the file written from it, never have more than subset_size          *)
(* records: when the initial draw and what the pass appended are more than *)
(* subset_size together, exactly subset_size records are left, and         *)
(* otherwise all of them are.                                              *)
(***************************************************************************)
CombinedSize == Len(gf_initial) + Len(gf_added)

C21_AtMostSubsetSize ==
    /\ VariantPassEnded =>
          /\ Len(gf_subsets) <= gf_subset_size
          /\ Len(gf_subsets) = Min(CombinedSize, gf_subset_size)
    /\ gf_pc = "done" =>
          /\ Len(gf_subset_file) = Len(gf_subsets)
          /\ Len(gf_subset_file) <= gf_subset_size

\* A run has written subset_size records after the correction pass had
\* brought the subset above subset_size.
C21_Witness ==
    /\ gf_pc = "done"
    /\ CombinedSize > gf_subset_size
    /\ Len(gf_subset_file) = gf_subset_size

(***************************************************************************)
(* C22: in the dataset generator a client call that returns None for a     *)
(* window prints a warning and the run goes on.  A window that brought     *)
(* nothing because of it is passed over: the loop moves to the next        *)
(* window, and the file and unique_set are as they were.  The run is       *)
(* ended early only by an event without start_time or duration_sec, never  *)
(* by a None; no step takes a line out of the file; and a run that is done *)
(* has moved the window start up to end_date.                              *)
(***************************************************************************)
WarnedWindow ==
    \E warning \in ds_log :
        /\ warning.line = "Warning: past"
        /\ warning.window = ds_current_start_date

IsPrefix(a, b) == Len(a) <= Len(b) /\ \A i \in DOMAIN a : a[i] = b[i]

MalformedFetched ==
    \E entry \in Range(NestedLoopOrder(ds_service_event_info_list)) :
        Malformed(entry.event_info)

C22_NoneWindowIsPassedOver ==
    [][ /\ (ds_pc = "process" /\ WarnedWindow /\ ds_service_event_info_list = <<>>) =>
              /\ ds_pc' = "while"
              /\ ds_current_start_date' = ds_current_end_date
              /\ ds_dataset_file' = ds_dataset_file
              /\ ds_unique_set' = ds_unique_set
        /\ (ds_pc = "process" /\ WarnedWindow /\ ~MalformedFetched) =>
              /\ ds_pc' = "while"
              /\ ds_current_start_date' = ds_current_end_date
        /\ (ds_pc # "aborted" /\ ds_pc' = "aborted") =>
              (ds_pc = "process" /\ MalformedFetched)
        /\ ds_pc \in {"while", "process"} => IsPrefix(ds_dataset_file, ds_dataset_file')
        /\ ds_pc' = "done" => ds_current_start_date' >= ds_end_date
      ]_vars

\* A run is done whose first window had a call that returned None and
\* whose later window wrote a record.
C22_Witness ==
    /\ ds_pc = "done"
    /\ \E warning, added \in ds_log :
          /\ warning.line = "Warning: past"
          /\ warning.window = ds_start_date
          /\ added.line = "Add"
          /\ added.window > warning.window
    /\ ds_dataset_file # <<>>

(***************************************************************************)
(* C23: a record written by the subset generator has no weight field, and  *)
(* each of its fields has the value the record had when it was read: the   *)
(* read loop appends the validated line with nothing but its weight set,   *)
(* the lists of records read are not touched afterwards, and a written     *)
(* line is one of those records without its weight.                        *)
(***************************************************************************)
SameButWeight(written, data) ==
    /\ DOMAIN written = (DOMAIN data) \ {"weight"}
    /\ \A field \in DOMAIN written : written[field] = data[field]

C23_FileKeepsReadFields ==
    /\ [](sg_pc = "done" =>
            \A i \in DOMAIN sg_subset_file :
                /\ "weight" \notin DOMAIN sg_subset_file[i]
                /\ \E data \in Range(sg_all_epg_data) :
                      SameButWeight(sg_subset_file[i], data))
    /\ [][ /\ IsPrefix(sg_all_epg_data, sg_all_epg_data')
           /\ Len(sg_all_epg_data') <= Len(sg_all_epg_data) + 1
           /\ Len(sg_all_epg_data') = Len(sg_all_epg_data) + 1 =>
                 \E obj \in InputRecords :
                     LET data == sg_all_epg_data'[Len(sg_all_epg_data')]
                     IN  /\ DOMAIN data = DOMAIN obj
                         /\ \A field \in (DOMAIN obj) \ {"weight"} :
                                data[field] = obj[field]
           /\ \A data \in Range(sg_subsets') : data \in Range(sg_all_epg_data')
         ]_vars

\* A file has been written with a record whose weight was set to more than
\* the 1.0 it was validated with.
C23_Witness ==
    /\ sg_pc = "done"
    /\ \E i \in DOMAIN sg_subset_file :
          \E data \in Range(sg_all_epg_data) :
              /\ SameButWeight(sg_subset_file[i], data)
              /\ data.weight > 60000

(***************************************************************************)
(* C24: what sample_data returns holds no candidate twice and no candidate *)
(* of weight zero, and has at most target_size items; it has fewer only    *)
(* when no candidate of positive weight is left, which is when the loop    *)
(* finds the remaining weight sum to be zero (or every index chosen).      *)
(***************************************************************************)
RemainingWeight ==
    SumSeq(available_weights(sd_weights, Range(sd_result)))

C24_DistinctPositiveDraws ==
    sd_returned =>
        /\ \A i, j \in DOMAIN sd_result : sd_result[i] = sd_result[j] => i = j
        /\ \A i \in DOMAIN sd_result :
              /\ sd_result[i] \in 1..Len(sd_weights)
              /\ sd_weights[sd_result[i]] > 0
        /\ Len(sd_result) <= sd_target_size
        /\ Len(sd_result) < sd_target_size => RemainingWeight = 0

\* A call has drawn twice and stopped short of target_size with a
\* zero-weight candidate left over.
C24_Witness ==
    /\ sd_returned
    /\ Len(sd_result) = 2
    /\ Len(sd_result) < sd_target_size
    /\ \E i \in 1..Len(sd_weights) : sd_weights[i] = 0 /\ i \notin Range(sd_result)

(***************************************************************************)
(* C25 as stated: the whole dataset file of a run over several fetch       *)
(* windows is in non-decreasing order of id, also when a window boundary   *)
(* is not a whole minute.                                                  *)
(***************************************************************************)
C25_Original ==
    \A i, j \in DOMAIN wn_dataset_file :
        i < j => ~StrLess(wn_dataset_file[j].id, wn_dataset_file[i].id)

(***************************************************************************)
(* C28: the fetch loop of the dataset generator ends for every start_date  *)
(* and end_date.  The windows fetched begin at start_date, each begins     *)
(* where the one before ended, each is longer than nothing and at most one *)
(* week long, and none ends after end_date; when the loop has ended they   *)
(* reach end_date if start_date < end_date, and there is none if           *)
(* start_date >= end_date.                                                 *)
(***************************************************************************)
WindowsContiguous ==
    /\ \A n \in DOMAIN wn_windows :
          /\ wn_windows[n][1] < wn_windows[n][2]
          /\ wn_windows[n][2] - wn_windows[n][1] <= HalfMinutesOfWeek
          /\ wn_windows[n][2] <= wn_end_date
          /\ wn_windows[n][1] = (IF n = 1 THEN wn_start_date ELSE wn_windows[n - 1][2])
    /\ wn_pc = "done" =>
          IF wn_start_date < wn_end_date
          THEN /\ wn_windows # <<>>
               /\ wn_windows[Len(wn_windows)][2] = wn_end_date
          ELSE wn_windows = <<>>

C28_WindowsCoverAndEnd ==
    /\ []WindowsContiguous
    /\ <>(wn_pc = "done")

\* A run has ended after three windows, the last of them shorter than a
\* week, from a start_date that is not a whole minute.
C28_Witness ==
    /\ wn_pc = "done"
    /\ Len(wn_windows) = 3
    /\ wn_start_date = 1
    /\ wn_windows[3][2] - wn_windows[3][1] < HalfMinutesOfWeek

\* C26: RemoveSymbols of a string made of one character of
\* enclosed_characters_table is the empty string: every bracketed value of
\* the table is removed by the mark list.
C26_Original ==
    (rs_calls >= 1 /\ rs_string \in EnclosedCharacterStrings) => rs_first = <<>>

\* A record that passes meets_condition and the date bounds of lines 151-159.
Eligible(data) ==
    /\ meets_condition(data)
    /\ ~(sg_start_date # None /\ DatetimeLess(data.start_time, sg_start_date[1]))
    /\ ~(sg_end_date # None /\ DatetimeLess(sg_end_date[1], data.start_time))

KeysOf(list) == {unique_key(list[n]) : n \in 1..Len(list)}

\* C27: in the subset generator a record rejected by meets_condition or by
\* the date bounds is never added to the duplicate-key set, and of the
\* eligible records with one (title, description) the first in input order
\* is the one kept: the key set is at every moment the set of the keys of
\* the records kept, which are eligible and of pairwise different keys; a
\* line read either is skipped, and then leaves the key set and the pool as
\* they were, or is appended behind the records kept so far, with a key the
\* set did not hold.
C27_RejectedLeavesKeys ==
    /\ [](/\ sg_unique_keys = KeysOf(sg_all_epg_data)
          /\ \A n \in 1..Len(sg_all_epg_data) : Eligible(sg_all_epg_data[n])
          /\ \A m, n \in 1..Len(sg_all_epg_data) :
               unique_key(sg_all_epg_data[m]) = unique_key(sg_all_epg_data[n]) => m = n)
    /\ [][sg_all_epg_count' = sg_all_epg_count + 1 =>
            \/ /\ sg_skipped' # sg_skipped
               /\ sg_unique_keys' = sg_unique_keys
               /\ sg_all_epg_data' = sg_all_epg_data
            \/ /\ sg_skipped' = sg_skipped
               /\ Len(sg_all_epg_data') = Len(sg_all_epg_data) + 1
               /\ SubSeq(sg_all_epg_data', 1, Len(sg_all_epg_data)) = sg_all_epg_data
               /\ LET key == unique_key(sg_all_epg_data'[Len(sg_all_epg_data')]) IN
                  /\ key \notin sg_unique_keys
                  /\ sg_unique_keys' = sg_unique_keys \cup {key}]_vars

\* Three lines were read: one was rejected, one was kept and one was
\* skipped as the duplicate of the one kept.
C27_Witness ==
    /\ sg_all_epg_count = 3
    /\ sg_skipped["condition"] + sg_skipped["before"] + sg_skipped["after"] = 1
    /\ sg_skipped["duplicate"] = 1
    /\ Len(sg_all_epg_data) = 1

\* The call of OnClick of this step saved: the record at current_index now
\* has the stripped annotation of the call, the other records are as they
\* were, the file holds every record, and current_index is one more.
AcceptedClick ==
    LET call == an_clicked'[1]
        position == ListPosition(an_subsets, an_current_index)
    IN  /\ call.id # InitialId
        /\ an_current_index < Len(an_subsets)
        /\ position # 0
        /\ an_subsets' = [an_subsets EXCEPT ![position] =
               [@ EXCEPT !.series_title = strip(call.series_title),
                         !.episode_number = IF strip(call.episode_number) = <<>>
                                            THEN None
                                            ELSE <<strip(call.episode_number)>>,
                         !.subtitle = IF strip(call.subtitle) = <<>> THEN None
                                      ELSE <<strip(call.subtitle)>>]]
        /\ an_subset_file' = an_subsets'
        /\ an_current_index' = an_current_index + 1

\* C29: in the annotation tool current_index never decreases; a step that
\* changes current_index, the records or the file is an accepted click,
\* which sets the stripped annotation on subsets[current_index], rewrites
\* the whole file and advances current_index by exactly 1; a click from
\* the initial screen changes none of the three, and neither does any
\* click once current_index >= len(subsets).
C29_IndexAdvancesWithSave ==
    [][/\ an_current_index' >= an_current_index
       /\ (\/ an_current_index' # an_current_index
           \/ an_subsets' # an_subsets /\ an_pc = "serving"
           \/ an_subset_file' # an_subset_file) => AcceptedClick
       /\ (an_pc = "serving" /\ an_clicked' # <<>> /\ an_clicked'[1].id = InitialId)
            => UNCHANGED <<an_current_index, an_subsets, an_subset_file>>
       /\ (an_pc = "serving" /\ an_current_index >= Len(an_subsets))
            => UNCHANGED <<an_current_index, an_subsets, an_subset_file>>]_vars

\* Both records were annotated, the first with an empty episode number,
\* and a click was made after the last record; the file holds both.
C29_Witness ==
    /\ Len(an_subsets) = 2
    /\ an_current_index = 2
    /\ an_subsets[1].episode_number = None
    /\ an_subsets[1].series_title = <<83>>
    /\ an_subsets[2].subtitle = <<<<84>>>>
    /\ an_subset_file = an_subsets
    /\ an_clicked # <<>> /\ an_clicked[1].id = CompletedId

\* C30: in the annotation tool, whatever the order of the clicks of the
\* sessions, the annotation submitted while a record is displayed is stored
\* on that record: at each update the id passed to OnClick is the id of
\* subsets[current_index].
C30_Original ==
    [][an_current_index' # an_current_index =>
          an_clicked'[1].id
              = an_subsets[ListPosition(an_subsets, an_current_index)].id]_vars

====
